---- MODULE Spec2Model ----
(***************************************************************************)
(* A model of the lint orchestration engine of demisto-sdk                 *)
(* (demisto_sdk/commands/lint): the linter base classes, the docker-backed *)
(* linter runner and the LintManager.                                      *)
(*                                                                         *)
(* Texts (linter outputs, container logs) are sequences of one-character   *)
(* strings, so that split_warnings_errors is computed on characters as the *)
(* code computes it.                                                       *)
(***************************************************************************)
EXTENDS Integers, Sequences, FiniteSets, TLC

VARIABLES
    FAILED_PACKAGES,        \* BaseLinter.FAILED_PACKAGES (class attribute, one list object)
    WARNING_PACKAGES,       \* BaseLinter.WARNING_PACKAGES (class attribute, one list object)
    lastCall                \* history: the last linter invocation and what it ended with

linterVars == <<FAILED_PACKAGES, WARNING_PACKAGES, lastCall>>

(***************************************************************************)
(* Bounds and alphabets                                                    *)
(***************************************************************************)
\* longest stdout text of a local linter process, in characters
MaxStdLen == 2
\* longest stderr text of a local linter process, in characters
MaxStdErrLen == 1

NL == "\n"
\* the characters the classification of a line looks at: the severity letters,
\* digits, and the colon
Chars == {"W", "E", "9", "0", ":"}
Digits == {"9", "0"}
Symbols == Chars \cup {NL}

Texts(n) == UNION {[1..k -> Symbols] : k \in 0..n}

PackageNames == {"PkgA", "PkgB"}

\* LinterResult (lint_constants.py)
RERUN == "RERUN"
FAIL == "FAIL"
SUCCESS == "SUCCESS"
WARNING == "WARNING"
LinterResult == {RERUN, FAIL, SUCCESS, WARNING, "FAILED_CREATING_DOCKER_IMAGE"}

\* linter variants that run a local process through BaseLinter.run
LocalLinters == {"Flake8", "MyPy", "Vulture"}
\* linter variants that run in a container through DockerBaseLinter.run
DockerLinters == {"Pytest", "Powershell Test"}
AllLinters == LocalLinters \cup DockerLinters

(***************************************************************************)
(* Text helpers: str.split('\n'), '\n'.join, startswith, in                *)
(***************************************************************************)
RECURSIVE SplitLines(_)
SplitLines(s) ==
    IF \E i \in 1..Len(s) : s[i] = NL
    THEN LET i == CHOOSE k \in 1..Len(s) : s[k] = NL /\ \A j \in 1..(k - 1) : s[j] # NL
         IN  <<SubSeq(s, 1, i - 1)>> \o SplitLines(SubSeq(s, i + 1, Len(s)))
    ELSE <<s>>

RECURSIVE JoinLines(_)
JoinLines(lines) ==
    IF lines = <<>> THEN <<>>
    ELSE IF Len(lines) = 1 THEN lines[1]
    ELSE lines[1] \o <<NL>> \o JoinLines(Tail(lines))

StartsWith(msg, c) == Len(msg) >= 1 /\ msg[1] = c

Contains(msg, pat) ==
    \E i \in 1..(Len(msg) - Len(pat) + 1) : SubSeq(msg, i, i + Len(pat) - 1) = pat

(***************************************************************************)
(* BaseLinter.split_warnings_errors                                        *)
(***************************************************************************)
\* msg[1] on a one-character line: IndexError
IndexesPastEnd(msg, c) == StartsWith(msg, c) /\ Len(msg) < 2

IsWarningLine(msg) ==
    \/ StartsWith(msg, "W") /\ Len(msg) >= 2 /\ msg[2] \in Digits
    \/ Contains(msg, <<"W", ":">>)
    \/ Contains(msg, <<"W", "9", "0">>)

IsErrorLine(msg) ==
    /\ ~IsWarningLine(msg)
    /\ \/ StartsWith(msg, "E") /\ Len(msg) >= 2 /\ msg[2] \in Digits
       \/ Contains(msg, <<"E", ":">>)
       \/ Contains(msg, <<"E", "9", "0">>)

LineRaises(msg) ==
    \/ IndexesPastEnd(msg, "W")
    \/ ~IsWarningLine(msg) /\ IndexesPastEnd(msg, "E")

split_warnings_errors(output) ==
    LET output_lst == SplitLines(output)
    IN  IF \E i \in 1..Len(output_lst) : LineRaises(output_lst[i])
        THEN [raised |-> TRUE, errors |-> <<>>, warnings |-> <<>>, other |-> <<>>]
        ELSE [raised |-> FALSE,
              errors |-> SelectSeq(output_lst, IsErrorLine),
              warnings |-> SelectSeq(output_lst, IsWarningLine),
              other |-> SelectSeq(output_lst,
                                  LAMBDA m : ~IsWarningLine(m) /\ ~IsErrorLine(m))]

(***************************************************************************)
(* BaseLinter.add_non_successful_package: the lists after the call, and    *)
(* whether the call raised.                                                *)
(***************************************************************************)
UnsuccessfulPackageReport(package_name, outputs) ==
    [package_name |-> package_name, outputs |-> outputs]

add_non_successful_package(failed, warned, package_name, linter_result, outputs) ==
    IF linter_result \in {WARNING, FAIL}
    THEN LET s == split_warnings_errors(outputs)
             error_msg == JoinLines(s.errors) \o JoinLines(s.other)
         IN  IF s.raised
             THEN [raised |-> TRUE, failed |-> failed, warned |-> warned]
             ELSE [raised |-> FALSE,
                   warned |-> IF s.warnings # <<>>
                              THEN Append(warned,
                                          UnsuccessfulPackageReport(package_name,
                                                                    JoinLines(s.warnings)))
                              ELSE warned,
                   failed |-> IF error_msg # <<>>
                              THEN Append(failed,
                                          UnsuccessfulPackageReport(package_name, error_msg))
                              ELSE failed]
    ELSE [raised |-> FALSE, failed |-> failed, warned |-> warned]

(***************************************************************************)
(* Attribute lookup self.FAILED_PACKAGES / self.WARNING_PACKAGES of a      *)
(* linter variant: no variant class assigns the attribute, so the lookup   *)
(* resolves to the list object of BaseLinter.                              *)
(***************************************************************************)
FailedPackagesOf(linter) == FAILED_PACKAGES
WarningPackagesOf(linter) == WARNING_PACKAGES

\* BaseLinter.report_pass_lint_check, by its bracketed verdict
report_pass_lint_check(linter, disable_flag) ==
    IF disable_flag THEN "SKIPPED"
    ELSE IF FailedPackagesOf(linter) # <<>> THEN "FAIL"
    ELSE "PASS"

(***************************************************************************)
(* BaseLinter.run: the classification of the process result                *)
(***************************************************************************)
\* the classification by the exit code alone
BaseLinterResultByExitCode(stdout, stderr, exit_code) ==
    IF exit_code # 0
    THEN IF stderr # <<>> THEN <<FAIL, stderr>> ELSE <<FAIL, stdout>>
    ELSE <<SUCCESS, <<>>>>

BaseLinterResult(stdout, stderr, exit_code) ==
    IF stderr # <<>> \/ exit_code # 0
    THEN IF stderr # <<>> THEN <<FAIL, stderr>> ELSE <<FAIL, stdout>>
    ELSE <<SUCCESS, <<>>>>

NoCall == [linter |-> "none", package_name |-> "none",
           stdout |-> <<>>, stderr |-> <<>>, exit_code |-> 0,
           linter_result |-> "none", output |-> <<>>, raised |-> FALSE,
           failed_before |-> <<>>, warned_before |-> <<>>]

\* BaseLinter.run of one variant on one package, add_non_successful_package included
BaseLinterRun ==
    /\ lastCall = NoCall
    /\ \E linter \in LocalLinters, package_name \in PackageNames,
          stdout \in Texts(MaxStdLen), stderr \in Texts(MaxStdErrLen), exit_code \in {0, 1} :
          LET r == BaseLinterResult(stdout, stderr, exit_code)
              a == add_non_successful_package(FAILED_PACKAGES, WARNING_PACKAGES,
                                              package_name, r[1], r[2])
          IN  /\ FAILED_PACKAGES' = a.failed
              /\ WARNING_PACKAGES' = a.warned
              /\ lastCall' = [linter |-> linter, package_name |-> package_name,
                              stdout |-> stdout, stderr |-> stderr,
                              exit_code |-> exit_code,
                              linter_result |-> r[1], output |-> r[2],
                              raised |-> a.raised,
                              failed_before |-> FAILED_PACKAGES,
                              warned_before |-> WARNING_PACKAGES]

(***************************************************************************)
(* DockerBaseLinter (linters/abstract_linters/docker_base_linter.py)       *)
(***************************************************************************)
\* Python's None
None == "None"

\* longest container log / exception text, in characters
MaxLogLen == 1
ContainerTexts == Texts(MaxLogLen)

\* base images a package can declare
ImageNames == {"py2img", "py3img"}
\* lint_package_facts.images: an ordered list without repetition
ImageLists ==
    {<<>>} \cup {<<i>> : i \in ImageNames}
           \cup {<<i, j>> : <<i, j>> \in {ij \in ImageNames \X ImageNames : ij[1] # ij[2]}}

\* container exit codes the model draws
ExitCodes == 0..2

\* DOCKER_EXIT_CODE_TO_LINTER_STATUS of the variant, by exit code; a code the
\* dict does not hold maps to the default of process_docker_results
ExitCodeTable(linter) ==
    IF linter = "Powershell Test"
    THEN (1 :> FAIL) @@ (2 :> FAIL)
    ELSE IF linter = "Pylint"
    THEN (1 :> FAIL) @@ (2 :> FAIL) @@ (4 :> SUCCESS) @@ (8 :> SUCCESS) @@ (16 :> SUCCESS)
         @@ (32 :> RERUN)
    ELSE (0 :> SUCCESS) @@ (1 :> FAIL) @@ (2 :> FAIL) @@ (3 :> RERUN) @@ (4 :> RERUN)
         @@ (5 :> SUCCESS)

\* DockerBaseLinter.process_docker_results
process_docker_results(linter, container_exit_code) ==
    IF container_exit_code \in DOMAIN ExitCodeTable(linter)
    THEN ExitCodeTable(linter)[container_exit_code]
    ELSE SUCCESS

\* What the container engine does during one run_on_image: the container exits
\* with a code and has logs, or some engine call raises with a message.
RunOutcomes ==
    [kind : {"exited"}, code : ExitCodes, text : ContainerTexts]
    \cup [kind : {"exception"}, code : {0}, text : ContainerTexts]

\* PytestLinter.CONTAINER_EXIT_CODE_FOR_COVERAGE_AND_TEST_FILE
PytestCoverageExitCodes == {0, 1, 2, 5}

\* the value run_on_image passes as the first argument of
\* process_docker_results: package.name, a str
PackageArgOfRunOnImage == "str"

\* str(e) of the AttributeError and of the KeyError raised in
\* PytestLinter.process_docker_results, by its first character
LookupErrorText == <<"'">>

\* PytestLinter.process_docker_results(package, ...): package.name is looked
\* up on the argument, which raises AttributeError on a str; with a package
\* object the coverage is handled and SUCCESSFUL_UNIT_TESTS[package.name] or
\* FAILURE_UNIT_TESTS[package.name] is indexed, a dict no code adds a key to
pytest_process_docker_results(package_arg, container_exit_code, report_coverage) ==
    IF package_arg = "str"
    THEN [raised |-> TRUE, coverage |-> FALSE]
    ELSE [raised |-> TRUE,
          coverage |-> container_exit_code \in PytestCoverageExitCodes /\ report_coverage]

\* whether the process_docker_results of the variant raises in run_on_image
ProcessResultsRaises(linter, o) ==
    /\ linter = "Pytest"
    /\ o.kind = "exited"
    /\ pytest_process_docker_results(PackageArgOfRunOnImage, o.code, TRUE).raised

\* DockerBaseLinter.run_on_image: the pair it returns
run_on_image(linter, o) ==
    IF o.kind = "exception"
    THEN <<RERUN, o.text>>
    ELSE IF ProcessResultsRaises(linter, o)
    THEN <<RERUN, LookupErrorText>>
    ELSE LET exit_code == SUCCESS
             linter_result == process_docker_results(linter, o.code)
             output == IF linter_result = FAIL THEN o.text ELSE <<>>
         IN  <<exit_code, output>>

\* whether run_on_image reaches handle_coverage, the coverage being reported
\* (no_coverage is off)
handles_coverage(linter, o) ==
    /\ linter = "Pytest"
    /\ o.kind = "exited"
    /\ pytest_process_docker_results(PackageArgOfRunOnImage, o.code, TRUE).coverage

\* build tries of build_docker in a CI environment (DEMISTO_SDK_DOCKER_BUILD_TRIES default)
BuildTriesCI == 3

\* DockerBaseLinter.build_docker: the errors it returns when the first
\* failing_tries builds raise
build_docker(ci, failing_tries) ==
    LET build_tries == IF ci THEN BuildTriesCI ELSE 1
        last == IF failing_tries >= build_tries THEN build_tries - 1 ELSE failing_tries
    IN  IF \E trial \in 0..last : trial < failing_tries /\ trial >= build_tries
        THEN "build error"
        ELSE None

\* dockerfile_path = Path(package_path / '.Dockerfile')
DockerfileName == ".Dockerfile"
\* the files of the directory before the first call
InitialPackageFiles == {"PkgA.py"}

\* build_docker with the unlink inside the try block, after images.build
BuildDockerFilesUnlinkInTry(files, ci, failing_tries) ==
    LET build_tries == IF ci THEN BuildTriesCI ELSE 1
        written == files \cup {DockerfileName}
    IN  IF failing_tries < build_tries THEN written \ {DockerfileName} ELSE written

\* DockerBaseLinter.build_docker, the files of the directory when it returns:
\* the descriptor is written before the loop, no try of the loop touches a
\* file and every exception of images.build is caught, and after the loop
\* the descriptor is unlinked if it exists
build_docker_files(files, ci, failing_tries) ==
    LET written == files \cup {DockerfileName}
    IN  IF DockerfileName \in written THEN written \ {DockerfileName} ELSE written

\* What the engine and the template do during one _docker_image_create
ImageCreateOutcomes ==
    [template_error : BOOLEAN, pull_found : BOOLEAN, create_raises : BOOLEAN,
     ci : BOOLEAN, failing_tries : 0..BuildTriesCI]

\* get_python_version_from_image, in tenths
PythonNumberOfImage(docker_image) == IF docker_image = "py2img" THEN 27 ELSE 38

\* DockerBaseLinter._get_requirements, the branches on the python number (in
\* tenths): 2 < number < 3, number > 3, else none
requirements_of_python_number(number, requirements_python2, requirements_python3) ==
    IF 20 < number /\ number < 30
    THEN requirements_python2
    ELSE IF number > 30 THEN requirements_python3
    ELSE <<>>

\* DockerBaseLinter._get_requirements of an image
get_requirements(docker_image, requirements_python2, requirements_python3) ==
    requirements_of_python_number(PythonNumberOfImage(docker_image), requirements_python2,
                                  requirements_python3)

RECURSIVE JoinPacks(_)
JoinPacks(pypi_packs) ==
    IF pypi_packs = <<>> THEN "" ELSE " " \o Head(pypi_packs) \o JoinPacks(Tail(pypi_packs))

\* template.render(image=..., pypi_packs=..., pack_type=..., copy_pack=False)
\* of templates/dockerfile.jinja2: a build description that names the base
\* image, the interpreter kind of the package and the dependencies
RenderDockerfile(image, pypi_packs, pack_type) ==
    "FROM " \o image \o " TYPE " \o pack_type \o " PACKS" \o JoinPacks(pypi_packs)

\* hashlib.md5(...).hexdigest(), taken as free of collisions: the digest
\* stands for the text it was computed from
Md5HexDigest(text) == "md5(" \o text \o ")"

\* a tag made of the base image alone
DerivedTagWithoutHash(docker_image, dockerfile) == "devtest" \o docker_image

\* f'devtest{docker_image}-{hashlib.md5(dockerfile.encode("utf-8")).hexdigest()}'
DerivedTag(docker_image, dockerfile) ==
    "devtest" \o docker_image \o "-" \o Md5HexDigest(dockerfile)

\* build_docker: the short_id of the image built from the package directory
\* on top of test_image_name, the value of its local test_image_name when
\* the loop is left by break; None when no build succeeded
SecondStageImage(test_image_name, ci, failing_tries) ==
    LET build_tries == IF ci THEN BuildTriesCI ELSE 1
    IN  IF failing_tries < build_tries THEN "sha256:pack-on-" \o test_image_name ELSE None

\* DockerBaseLinter._docker_image_create: (image name, errors)
docker_image_create(docker_image, requirements, script_type, o) ==
    IF o.template_error
    THEN <<"", "template error">>
    ELSE LET dockerfile == RenderDockerfile(docker_image, requirements, script_type)
             test_image_name == DerivedTag(docker_image, dockerfile)
             errors0 == IF ~o.pull_found /\ o.create_raises THEN "create error" ELSE ""
             build_errors == build_docker(o.ci, o.failing_tries)
             errors == IF build_errors # None /\ build_errors # "" THEN build_errors
                       ELSE errors0
         IN  <<test_image_name, errors>>

\* Python truthiness of the errors value
Truthy(x) == x # None /\ x # ""

\* CoerceRerun with the trial test off by one: the coercion never happens
CoerceRerunOffByOne(linter_result, trial) ==
    IF linter_result = RERUN /\ trial = 2 THEN FAIL ELSE linter_result

\* the coercion at the end of the second trial of the run loop
CoerceRerun(linter_result, trial) ==
    IF linter_result = RERUN /\ trial = 1 THEN FAIL ELSE linter_result

FailedImageCreation(image, errors) == [image |-> image, errors |-> errors]

VARIABLES
    FAILED_IMAGE_CREATIONS, \* DockerBaseLinter.FAILED_IMAGE_CREATIONS: dict package name -> list
    dpc,                    \* position inside DockerBaseLinter.run
    dself,                  \* the variant, the package and lint_package_facts.images of the call
    imgIdx,                 \* index of test_image in the image loop
    trial,                  \* the trial variable of the running inner loop
    image_id, errors, linter_result, output,    \* locals of run
    attempts,               \* history: what the engine did in each container run made for
                            \* the current image
    raisedBy                \* the exception that left run, or None

dockerVars == <<FAILED_IMAGE_CREATIONS, dpc, dself, imgIdx, trial, image_id, errors,
                linter_result, output, attempts, raisedBy>>
dockerLocals == <<image_id, errors, linter_result, output>>

NoSelf == [module |-> "lint", linter |-> "none", package_name |-> "none", images |-> <<>>]

(***************************************************************************)
(* LintManager.run_dev_packages (lint_manager.py) on a                     *)
(* concurrent.futures.ThreadPoolExecutor                                   *)
(***************************************************************************)
\* largest configured parallelism (the parallel argument of LintManager)
MaxParallel == 2
\* max_workers of the ThreadPoolExecutor that run_dev_packages creates
max_workers == 1
\* the values run_dev_packages returns
ReturnInterrupted == 1
ReturnNormal == 0

\* the linters list run_dev_packages builds, in the order of ALL_LINTERS_CLASSES,
\* restricted to the local-process variants the model runs inside a package task
TaskLinters == <<"Flake8", "MyPy">>

\* outputs of a linter process inside a package task: nothing, an
\* uncategorized line, a one-letter line
TaskTexts == {<<>>, <<":">>, <<"W">>}

\* the order of package paths
PathRank(package_name) == IF package_name = "PkgA" THEN 1 ELSE 2

Range(seq) == {seq[i] : i \in 1..Len(seq)}

\* submission in the order of discovery, without sorting
KeepDiscoveryOrder(seq) == seq

RECURSIVE SortByPath(_)
\* sorted(..., key=lambda package_: package_.path): a stable sort, by selection
\* of the first element of least path
SortByPath(seq) ==
    IF seq = <<>> THEN <<>>
    ELSE LET i == CHOOSE j \in 1..Len(seq) :
                      /\ \A k \in 1..Len(seq) : PathRank(seq[j]) <= PathRank(seq[k])
                      /\ \A k \in 1..(j - 1) : PathRank(seq[k]) # PathRank(seq[j])
         IN  <<seq[i]>> \o SortByPath(SubSeq(seq, 1, i - 1) \o SubSeq(seq, i + 1, Len(seq)))

\* the state of the facts of a run
VARIABLES
    fpc,                \* position of the run: facts, linters, package facts, should_run
    genv,               \* what the environment answers while the global facts are built
    global_facts,       \* the LintGlobalFacts
    fpackage,           \* the package whose facts are built
    package_facts,      \* its LintPackageFacts
    lint_flags,         \* the LintFlags fields that are set
    decisions           \* should_run of every linter, once taken

factsVars == <<fpc, genv, global_facts, fpackage, package_facts, lint_flags, decisions>>

\* the state of a .coverage file and of the call that edits it
VARIABLES
    cov_pc,             \* position: no file yet, written by the test run, edited
    coverage_file,      \* whether the .coverage file exists, and its file table
    cov_call            \* the code_file_absolute_path of the last coverage_report_editor call

coverageVars == <<cov_pc, coverage_file, cov_call>>

\* the state of the JSON export of analyze_results
VARIABLES
    json_pc,            \* position: before the run's end, results to analyze, done
    json_file_path,     \* self.json_file_path, '' when JSON export is off
    json_file,          \* what the target path holds
    json_call           \* history: what the target path held when analyze_results began

exportVars == <<json_pc, json_file_path, json_file, json_call>>

\* the state of a run of the XSOAR linter on a package
VARIABLES
    xpc,                \* position in XSOARLinter.run and _pylint_plugin
    package_dir,        \* the names of the entries of the package directory
    xfile,              \* position of the loop over plugin_dirs.iterdir()
    xraised,            \* where an exception on its way out of run was raised, or None
    xresult,            \* linter_result of the run
    xexit_code,         \* exit_code of run_command_os in the run
    xcommand            \* the command build_linter_command built for the run

xsoarVars == <<xpc, package_dir, xfile, xraised, xresult, xexit_code, xcommand>>

\* the state of the package tasks of a lint run on the worker pool
VARIABLES
    ppc,                \* position of run_dev_packages: idle, running, finished
    prun,               \* how many lint runs the process has started
    pool,               \* the pool of the run: its max_workers and the package of each task
    ptask,              \* per task: position in DockerBaseLinter.run, trial, result, output
    containers,         \* the containers the docker engine holds: name and creating task
    produced            \* history: the reports appended to FAILED_PACKAGES during this run

poolVars == <<ppc, prun, pool, ptask, containers, produced>>

\* the state of the image creation calls of a docker-backed linter
VARIABLES
    image_pc,           \* position: idle, created, ran, creation_failed
    icall,              \* the last _docker_image_create call: inputs, engine outcome, result
    iprev,              \* history: the inputs and the tag of the call before it
    container_image     \* the image of the container run_on_image started after the call

imageVars == <<image_pc, icall, iprev, container_image>>

\* a container run of the Pylint variant
VARIABLES
    pylint_call         \* the last run_on_image of Pylint: image, exit code, classification, return

pylintVars == <<pylint_call>>

\* the state of a _get_requirements call
VARIABLES
    vpc,                \* position: idle, attempt, returned, got_requirements
    version_image,      \* the image get_python_version_from_image is called with
    attempt,            \* attempt of the loop, the failed attempts so far
    py_num,             \* py_num of get_python_version_from_image
    containers_started, \* history: the bootstrap containers the call started
    vrequirements       \* what _get_requirements made of the value returned

versionVars == <<vpc, version_image, attempt, py_num, containers_started, vrequirements>>

auxVars == <<factsVars, coverageVars, exportVars, xsoarVars, poolVars, imageVars,
            pylintVars, versionVars>>

(***************************************************************************)
(* LintManager.__init__ (lint_manager.py)                                  *)
(***************************************************************************)
\* most directories in the comma separated input_dirs argument
MaxInputDirs == 2

\* most changed files git reports in one diff
MaxChangedFiles == 1

INTEGRATIONS_DIR == "Integrations"
SCRIPTS_DIR == "Scripts"

\* the directory of each package in the content tree, as path components
\* below the repository root
PackagePath(package_name) ==
    IF package_name = "PkgA" THEN <<"Packs", "Base", INTEGRATIONS_DIR, "PkgA">>
    ELSE <<"Packs", "Other", SCRIPTS_DIR, "PkgB">>

\* the package object made from a package directory
PackageAt(path) == CHOOSE package_name \in PackageNames : PackagePath(package_name) = path

\* the directories that can be given as input: package directories and a pack
InputDirUniverse == {PackagePath(package_name) : package_name \in PackageNames}
                        \cup {<<"Packs", "Base">>}

\* input_dirs after split(',')
InputDirLists == UNION {[1..k -> InputDirUniverse] : k \in 0..MaxInputDirs}

\* Path(...).parent
ParentPath(path) == SubSeq(path, 1, Len(path) - 1)

\* whether path lies in dir or below it
IsUnder(path, dir) == Len(dir) <= Len(path) /\ SubSeq(path, 1, Len(dir)) = dir

\* content_dir_path.glob([kind + '/*/', 'Packs/*/' + kind + '/*/']), in path order
GlobPackages(content_dir, kind) ==
    SortByPath(
        SelectSeq(<<"PkgA", "PkgB">>,
                  LAMBDA package_name :
                      LET path == PackagePath(package_name)
                          n == Len(content_dir)
                      IN  /\ IsUnder(path, content_dir)
                          /\ \/ Len(path) = n + 2 /\ path[n + 1] = kind
                             \/ Len(path) = n + 4 /\ path[n + 1] = "Packs"
                                                  /\ path[n + 3] = kind))

\* the changed files a diff can report: a file of a package directory, or a
\* file of a directory inside it
ChangedFileUniverse ==
    UNION {{PackagePath(package_name) \o <<"file">>,
            PackagePath(package_name) \o <<"test_data", "file">>} :
              package_name \in PackageNames}

DiffSets == {d \in SUBSET ChangedFileUniverse : Cardinality(d) <= MaxChangedFiles}

\* the repository has no change
NoDiff == [staged |-> {}, changed_from_base |-> {}]

\* the content repository object found by build_lint_global_facts
Repo == "Repo"

\* the locals of __init__ before it is called and after it has returned
NoArgs == [input_dirs |-> <<>>, git_only_passed |-> FALSE, git_only |-> FALSE,
           all_packs |-> FALSE, parallel |-> 0]

\* _get_all_packages(content_dir): the single package of a directory whose
\* parent is Integrations or Scripts, else the integrations and then the
\* scripts found below the directory
get_all_packages(content_dir) ==
    IF content_dir # <<>> /\ ParentPath(content_dir) # <<>>
          /\ ParentPath(content_dir)[Len(content_dir) - 1] \in {INTEGRATIONS_DIR, SCRIPTS_DIR}
    THEN <<PackageAt(content_dir)>>
    ELSE GlobPackages(content_dir, INTEGRATIONS_DIR) \o GlobPackages(content_dir, SCRIPTS_DIR)

RECURSIVE FlattenPackages(_)
\* [package for input_dir in input_dirs for package in self._get_all_packages(input_dir)]
FlattenPackages(input_dirs) ==
    IF input_dirs = <<>> THEN <<>>
    ELSE get_all_packages(Head(input_dirs)) \o FlattenPackages(Tail(input_dirs))

\* os.path.basename(os.path.dirname(package)) is Integrations or Scripts
ParentDirName(path) == IF Len(path) < 2 THEN "" ELSE path[Len(path) - 1]

\* the two command modules that define LintManager
LintModules == {"lint", "lint_refactor"}

RECURSIVE get_packages_of_input_dirs(_)
\* lint_refactor _get_packages, the loop over input_dirs.split(','): the
\* packages appended and the warnings printed
get_packages_of_input_dirs(input_dirs) ==
    IF input_dirs = <<>> THEN [packages |-> <<>>, warnings |-> <<>>]
    ELSE LET package == Head(input_dirs)
             integration_or_script_dir == ParentDirName(package)
             rest == get_packages_of_input_dirs(Tail(input_dirs))
             as_integration == IF integration_or_script_dir = INTEGRATIONS_DIR
                               THEN <<PackageAt(package)>> ELSE <<>>
         IN  IF integration_or_script_dir = SCRIPTS_DIR
             THEN [packages |-> as_integration \o <<PackageAt(package)>> \o rest.packages,
                   warnings |-> rest.warnings]
             ELSE [packages |-> as_integration \o rest.packages,
                   warnings |-> <<package>> \o rest.warnings]

\* tree.diff(..., paths=packages_paths): the changed files below the paths
DiffOfPaths(changed_files, packages_paths) ==
    {f \in changed_files : \E path \in packages_paths : IsUnder(f, path)}

\* _filter_changed_packages: the packages whose path is the parent directory
\* of a changed file of either diff
filter_changed_packages(pkgs, staged, from_base) ==
    LET packages_paths == {PackagePath(pkgs[i]) : i \in 1..Len(pkgs)}
        staged_files == {ParentPath(f) : f \in DiffOfPaths(staged, packages_paths)}
        changed_from_base == {ParentPath(f) : f \in DiffOfPaths(from_base, packages_paths)}
        all_changed == staged_files \cup changed_from_base
        packages_to_check_path == all_changed \cap packages_paths
    IN  SelectSeq(pkgs, LAMBDA package : PackagePath(package) \in packages_to_check_path)

\* git_only = git_only or (not all_packs and not input_dirs)
ImpliedGitOnly(git_only, all_packs, input_dirs) ==
    git_only \/ (~all_packs /\ input_dirs = <<>>)

\* a repository check that looks at all-packages mode alone
RepoRequiredInAllPacksOnly(all_packs, git_only) == all_packs

\* the condition under which __init__ raises when content_repo is not found;
\* git_only is the local as reassigned at the top of __init__
RepoRequired(all_packs, git_only) == all_packs \/ git_only

VARIABLES
    ipc,                \* position in LintManager.__init__
    args,               \* the arguments and locals of __init__
    content_repo,       \* self.lint_global_facts.content_repo
    repo_diff,          \* the changed files of the working tree and of the diff to the base
    lint_module,        \* the module whose LintManager is constructed
    warnings,           \* the input paths reported by print_warning as not a package dir
    mpc,                \* position of the main thread in run_dev_packages
    packages,           \* self.packages
    parallel,           \* self.parallel
    nextSubmit,         \* index in the sorted package list of the next package to submit
    futures,            \* the futures list: the package of each submitted task
    future,             \* state of each future, by position in the futures list
    work_queue,         \* the executor's queue of work items not yet taken by a worker
    taskpos,            \* per task: 0 before build_package_facts, k after k - 1 linters
    interrupt,          \* whether Ctrl-C arrived, and what was submitted and started then
    dispatch_failed,    \* the except Exception branch of the dispatch loop was taken
    analyzed,           \* analyze_results was called
    status              \* the value run_dev_packages returned, or None

initVars == <<ipc, args, content_repo, repo_diff, lint_module, warnings>>

managerVars == <<mpc, packages, parallel, nextSubmit, futures, future, work_queue, taskpos,
                 interrupt, dispatch_failed, analyzed, status>>

\* __init__ up to the construction of lint_flags
LintManagerInit ==
    /\ ipc = "new"
    /\ \E input_dirs \in InputDirLists, git_only \in BOOLEAN, all_packs \in BOOLEAN,
          par \in 1..MaxParallel, repo \in {None, Repo},
          staged \in DiffSets, from_base \in DiffSets, module \in LintModules :
          /\ args' = [input_dirs |-> input_dirs,
                      git_only_passed |-> git_only,
                      git_only |-> ImpliedGitOnly(git_only, all_packs, input_dirs),
                      all_packs |-> all_packs,
                      parallel |-> par]
          /\ content_repo' = repo
          /\ lint_module' = module
          /\ repo_diff' = [staged |-> staged, changed_from_base |-> from_base]
          /\ (repo = None \/ ~ImpliedGitOnly(git_only, all_packs, input_dirs))
                => repo_diff' = NoDiff
    /\ ipc' = "check_repo"
    /\ UNCHANGED <<warnings, managerVars, linterVars, dockerVars, auxVars>>

\* if not self.lint_global_facts.content_repo and (all_packs or git_only): raise
CheckContentRepo ==
    /\ ipc = "check_repo"
    /\ ipc' = IF content_repo = None /\ RepoRequired(args.all_packs, args.git_only)
              THEN "raised" ELSE "get_packages"
    /\ UNCHANGED <<args, content_repo, repo_diff, lint_module, warnings, managerVars, linterVars,
                   dockerVars, auxVars>>

\* self.packages = self._get_packages(...), and the rest of __init__
GetPackages ==
    /\ ipc = "get_packages"
    /\ IF content_repo = None /\ (args.input_dirs = <<>> \/ args.git_only)
       THEN \* content_repo.working_dir or content_repo.remote() of None
            /\ ipc' = "raised_in_get_packages"
            /\ UNCHANGED <<args, packages, parallel, repo_diff, lint_module, warnings>>
       ELSE /\ LET resolved == get_packages_of_input_dirs(args.input_dirs)
                   found == IF args.input_dirs = <<>> THEN get_all_packages(<<>>)
                            ELSE IF lint_module = "lint_refactor" THEN resolved.packages
                            ELSE FlattenPackages(args.input_dirs)
               IN  /\ packages' = IF args.git_only
                                  THEN filter_changed_packages(found, repo_diff.staged,
                                                               repo_diff.changed_from_base)
                                  ELSE found
                   /\ warnings' = IF args.input_dirs # <<>> /\ lint_module = "lint_refactor"
                                  THEN resolved.warnings ELSE <<>>
            /\ lint_module' = "lint"
            /\ parallel' = args.parallel
            /\ args' = NoArgs
            /\ repo_diff' = NoDiff
            /\ ipc' = "constructed"
    /\ UNCHANGED <<content_repo, mpc, nextSubmit, futures, future, work_queue, taskpos,
                   interrupt, dispatch_failed, analyzed, status, linterVars, dockerVars, auxVars>>

(***************************************************************************)
(* LintManager.run_dev_packages (lint_manager.py) on a                     *)
(* concurrent.futures.ThreadPoolExecutor                                   *)
(***************************************************************************)
\* no KeyboardInterrupt has been raised in the main thread
NoInterrupt == [arrived |-> FALSE, submitted |-> 0, started |-> {}]

Tasks == 1..Len(futures)
Running == {i \in Tasks : future[i] = "running"}
Started == {i \in Tasks : future[i] \in {"running", "finished", "exception"}}

\* run_dev_packages is called on the constructed manager: the linters are
\* built and the executor is entered
RunDevPackages ==
    /\ ipc = "constructed"
    /\ mpc = "init"
    /\ mpc' = "dispatch"
    /\ nextSubmit' = 1
    /\ UNCHANGED <<packages, parallel, futures, future, work_queue, taskpos, interrupt,
                   dispatch_failed, analyzed, status, initVars, linterVars, dockerVars, auxVars>>

\* futures.append(executor.submit(self.run_linters, linters=linters, package=package))
Submit ==
    /\ mpc = "dispatch"
    /\ nextSubmit <= Len(packages)
    /\ work_queue' = Append(work_queue, Len(futures) + 1)
    /\ futures' = Append(futures, SortByPath(packages)[nextSubmit])
    /\ future' = Append(future, "pending")
    /\ taskpos' = Append(taskpos, 0)
    /\ nextSubmit' = nextSubmit + 1
    /\ UNCHANGED <<mpc, packages, parallel, interrupt, dispatch_failed, analyzed,
                   status, initVars, linterVars, dockerVars, auxVars>>

\* the for loop ends and the with block is left
DispatchDone ==
    /\ mpc = "dispatch"
    /\ nextSubmit > Len(packages)
    /\ mpc' = "with_exit"
    /\ UNCHANGED <<packages, parallel, nextSubmit, futures, future, work_queue, taskpos,
                   interrupt, dispatch_failed, analyzed, status, initVars, linterVars,
                   dockerVars, auxVars>>

\* except KeyboardInterrupt: executor.shutdown(wait=False), then return 1 from
\* inside the with block, whose exit runs before the function returns
KeyboardInterrupt ==
    /\ mpc = "dispatch"
    /\ interrupt' = [arrived |-> TRUE, submitted |-> Len(futures), started |-> Started]
    /\ mpc' = "with_exit"
    /\ UNCHANGED <<packages, parallel, nextSubmit, futures, future, work_queue, taskpos,
                   dispatch_failed, analyzed, status, initVars, linterVars, dockerVars, auxVars>>

\* except Exception: a warning is printed and the with block is left
DispatchException ==
    /\ mpc = "dispatch"
    /\ nextSubmit <= Len(packages)
    /\ dispatch_failed' = TRUE
    /\ mpc' = "with_exit"
    /\ UNCHANGED <<packages, parallel, nextSubmit, futures, future, work_queue, taskpos,
                   interrupt, analyzed, status, initVars, linterVars, dockerVars, auxVars>>

\* a worker thread of the pool takes the next work item; the pool has at most
\* max_workers threads, and a shut down pool still drains its queue
StartTask ==
    /\ work_queue # <<>>
    /\ Cardinality(Running) < max_workers
    /\ future' = [future EXCEPT ![Head(work_queue)] = "running"]
    /\ work_queue' = Tail(work_queue)
    /\ UNCHANGED <<mpc, packages, parallel, nextSubmit, futures, taskpos, interrupt,
                   dispatch_failed, analyzed, status, initVars, linterVars, dockerVars, auxVars>>

\* run_linters: build_package_facts(self.lint_global_facts, package), which may raise
TaskBuildFacts ==
    \E task \in Running :
        /\ taskpos[task] = 0
        /\ \E facts_ok \in BOOLEAN :
              IF facts_ok
              THEN /\ taskpos' = [taskpos EXCEPT ![task] = 1]
                   /\ future' = IF Len(TaskLinters) = 0
                                THEN [future EXCEPT ![task] = "finished"]
                                ELSE future
              ELSE /\ future' = [future EXCEPT ![task] = "exception"]
                   /\ UNCHANGED taskpos
        /\ UNCHANGED <<mpc, packages, parallel, nextSubmit, futures, work_queue, interrupt,
                       dispatch_failed, analyzed, status, initVars, linterVars, dockerVars, auxVars>>

\* run_linters: linter.run(package, package_facts) of the next linter
TaskRunLinter ==
    \E task \in Running :
        /\ taskpos[task] >= 1
        /\ \E stdout \in TaskTexts, stderr \in TaskTexts, exit_code \in {0, 1} :
              LET r == BaseLinterResult(stdout, stderr, exit_code)
                  a == add_non_successful_package(FAILED_PACKAGES, WARNING_PACKAGES,
                                                  futures[task], r[1], r[2])
              IN  /\ FAILED_PACKAGES' = a.failed
                  /\ WARNING_PACKAGES' = a.warned
                  /\ IF a.raised
                     THEN /\ future' = [future EXCEPT ![task] = "exception"]
                          /\ UNCHANGED taskpos
                     ELSE /\ taskpos' = [taskpos EXCEPT ![task] = @ + 1]
                          /\ future' = IF taskpos[task] = Len(TaskLinters)
                                       THEN [future EXCEPT ![task] = "finished"]
                                       ELSE future
        /\ UNCHANGED <<mpc, packages, parallel, nextSubmit, futures, work_queue, interrupt,
                       dispatch_failed, analyzed, status, lastCall, initVars, dockerVars, auxVars>>

\* the with block left without the join of the worker threads
WithExitWithoutJoin ==
    /\ mpc = "with_exit"
    /\ IF interrupt.arrived
       THEN /\ mpc' = "returned"
            /\ status' = ReturnInterrupted
       ELSE /\ mpc' = "collect"
            /\ UNCHANGED status
    /\ UNCHANGED <<packages, parallel, nextSubmit, futures, future, work_queue, taskpos,
                   interrupt, dispatch_failed, analyzed, initVars, linterVars, dockerVars, auxVars>>

\* the exit of the with block: executor.shutdown(wait=True) joins the worker
\* threads, which end when the queue is drained; then the pending return
WithExit ==
    /\ mpc = "with_exit"
    /\ work_queue = <<>>
    /\ Running = {}
    /\ IF interrupt.arrived
       THEN /\ mpc' = "returned"
            /\ status' = ReturnInterrupted
       ELSE /\ mpc' = "collect"
            /\ UNCHANGED status
    /\ UNCHANGED <<packages, parallel, nextSubmit, futures, future, work_queue, taskpos,
                   interrupt, dispatch_failed, analyzed, initVars, linterVars, dockerVars, auxVars>>

\* results = [future.result() for future in futures]: result() raises what the task raised
CollectResults ==
    /\ mpc = "collect"
    /\ mpc' = IF \E i \in Tasks : future[i] = "exception" THEN "raised" ELSE "analyze"
    /\ UNCHANGED <<packages, parallel, nextSubmit, futures, future, work_queue, taskpos,
                   interrupt, dispatch_failed, analyzed, status, initVars, linterVars,
                   dockerVars, auxVars>>

\* LintManager.ALL_LINTERS_CLASSES, by linter name
ALL_LINTERS_CLASSES ==
    <<"Bandit", "Flake8", "MyPy", "Powershell Analyze", "Powershell Test", "Pylint", "Pytest",
      "Vulture", "XSOAR Linter">>

\* [package.package_name for linter in linter_classes for package in
\*  linter.FAILED_PACKAGES]
RECURSIVE FailedPackageNames(_)
FailedPackageNames(linter_classes) ==
    IF linter_classes = <<>> THEN <<>>
    ELSE LET reports == FailedPackagesOf(Head(linter_classes))
         IN  [i \in 1..Len(reports) |-> reports[i].package_name]
             \o FailedPackageNames(Tail(linter_classes))

\* LintManager.report_summary: the numbers it prints
report_summary(all_packages) ==
    LET all_packages_count == Len(all_packages)
        failed_packages == FailedPackageNames(ALL_LINTERS_CLASSES)
    IN  [packages |-> all_packages_count,
         pass |-> all_packages_count - Len(failed_packages),
         fail |-> Len(failed_packages)]

\* self.analyze_results(linters); return 0
AnalyzeAndReturn ==
    /\ mpc = "analyze"
    /\ analyzed' = TRUE
    /\ status' = ReturnNormal
    /\ mpc' = "returned"
    /\ UNCHANGED <<packages, parallel, nextSubmit, futures, future, work_queue, taskpos,
                   interrupt, dispatch_failed, initVars, linterVars, dockerVars, auxVars>>

ManagerNext ==
    \/ LintManagerInit
    \/ CheckContentRepo
    \/ GetPackages
    \/ RunDevPackages
    \/ Submit
    \/ DispatchDone
    \/ KeyboardInterrupt
    \/ DispatchException
    \/ StartTask
    \/ TaskBuildFacts
    \/ TaskRunLinter
    \/ WithExit
    \/ CollectResults
    \/ AnalyzeAndReturn

(***************************************************************************)
(* Global facts, linter construction, package facts and should_run         *)
(* (lint_global_facts.py, lint_package_facts.py, the linters' should_run)  *)
(***************************************************************************)
\* most mandatory modules that are missing locally or refused remotely in one run
MaxBadModules == 1
\* most files in a package directory
MaxPackageFiles == 1
\* most LintFlags fields that are set in one run
MaxDisabledFlags == 1
\* range(2) in get_module_content
FetchTrials == 2
\* the trial number at which get_module_content would raise
FetchRaiseTrial == 2

\* a file name: stem, a test marker before the extension, extension
File(stem, tail, ext) == [stem |-> stem, tail |-> tail, ext |-> ext]

TYPE_PYTHON == "python"
TYPE_PWSH == "powershell"

\* Path.name of the module paths of EXTERNAL_REPO_FILE_PATH and
\* NON_EXTERNAL_REPO_FILE_PATH (the two sets hold the same five names)
MandatoryModuleNames ==
    {File("demistomock", "", "py"), File("conftest", "", "py"),
     File("CommonServerPython", "", "py"), File("demistomock", "", "ps1"),
     File("CommonServerPowerShell", "", "ps1")}

\* the directory of the module paths
ModuleDir(is_external_repo) == IF is_external_repo THEN "external" ELSE "content"

\* EXTERNAL_REPO_FILE_PATH / NON_EXTERNAL_REPO_FILE_PATH
ModulePaths(is_external_repo) ==
    {[dir |-> ModuleDir(is_external_repo), name |-> n] : n \in MandatoryModuleNames}

\* Path("CommonServerUserPython.py")
CommonServerUserPython == [dir |-> "", name |-> File("CommonServerUserPython", "", "py")]

\* what requests.get does on one attempt
Responses == {"ok", "not_ok", "conn_error"}

RECURSIVE get_module_content(_, _)
\* get_module_content of _get_modules_content_from_github, from trial on:
\* the content, None when the loop ends, or the ConnectionError raised
get_module_content(responses, fetch_trial) ==
    IF fetch_trial >= FetchTrials THEN None
    ELSE IF responses[fetch_trial + 1] = "conn_error" THEN "ConnectionError"
    ELSE IF responses[fetch_trial + 1] = "ok" THEN "content"
    ELSE IF fetch_trial = FetchRaiseTrial THEN "ConnectionError"
    ELSE get_module_content(responses, fetch_trial + 1)

\* what the environment of one run answers to build_lint_global_facts
NoEnv == [content_repo |-> None, is_external_repo |-> FALSE, docker_ping |-> "ok",
          trusted_ci |-> FALSE, bad_modules |-> {},
          responses |-> [t \in 1..FetchTrials |-> "ok"]]

GlobalEnvs ==
    [content_repo : {None, Repo},
     is_external_repo : BOOLEAN,
     docker_ping : {"ok", "fail"},
     trusted_ci : BOOLEAN,
     bad_modules : {b \in SUBSET MandatoryModuleNames : Cardinality(b) <= MaxBadModules},
     responses : [1..FetchTrials -> Responses]]

\* _has_docker_engine: TRUE, FALSE, or the ValueError of the content CI
has_docker_engine_of(env) ==
    IF env.docker_ping = "ok" THEN "True"
    ELSE IF env.trusted_ci THEN "ValueError"
    ELSE "False"

\* _get_test_modules: whether it ends in sys.exit(1), and the dict it returns
get_test_modules(env) ==
    LET modules == ModulePaths(env.is_external_repo)
        bad == {m \in modules : m.name \in env.bad_modules}
        fetched == [m \in modules |->
                       IF m \in bad THEN get_module_content(env.responses, 0)
                       ELSE "content"]
        with_user(d) == [m \in (DOMAIN d) \cup {CommonServerUserPython} |->
                            IF m = CommonServerUserPython THEN "empty" ELSE d[m]]
    IN  IF env.content_repo # None
        THEN IF bad # {} /\ env.is_external_repo
             THEN [exit |-> TRUE, modules |-> <<>>]
             ELSE [exit |-> FALSE, modules |-> with_user([m \in modules \ bad |-> "content"])]
        ELSE IF \E m \in modules : fetched[m] = "ConnectionError"
             THEN [exit |-> TRUE, modules |-> <<>>]
             ELSE [exit |-> FALSE, modules |-> with_user(fetched)]

NoGlobalFacts == [content_repo |-> None, has_docker_engine |-> FALSE, test_modules |-> <<>>]

\* LintFlags: the names of its disable fields
FlagNames == {"disable_flake8", "disable_bandit", "disable_mypy", "disable_pylint",
              "disable_pytest", "disable_vulture", "disable_xsoar_linter",
              "disable_pwsh_analyze", "disable_pwsh_test"}

\* the LintFlags field each linter passes to its base class as disable_flag
DisableFlagOf(linter) ==
    CASE linter = "Flake8" -> "disable_flake8"
      [] linter = "MyPy" -> "disable_mypy"
      [] linter = "Vulture" -> "disable_flake8"
      [] linter = "Pytest" -> "disable_pytest"
      [] linter = "Powershell Test" -> "disable_pwsh_analyze"
      [] linter = "Bandit" -> "disable_bandit"
      [] linter = "Pylint" -> "disable_pylint"
      [] linter = "XSOAR Linter" -> "disable_flake8"
      [] linter = "Powershell Analyze" -> "disable_pwsh_analyze"

\* the linters whose should_run asks has_lint_files
FileBasedLinters == {"Flake8", "MyPy", "Vulture", "Bandit", "Pylint", "XSOAR Linter",
                     "Powershell Analyze"}
\* the linters that run in containers
ContainerLinters == {"Pytest", "Powershell Test", "Pylint", "Powershell Analyze"}
FactsLinters == FileBasedLinters \cup ContainerLinters

\* the files a package directory can hold
PackageFileUniverse ==
    {File("Pkg", "", "py"), File("Pkg", "_test", "py"), File("__init__", "", "py"),
     File("demistomock", "", "py"), File("CommonServerPython", "", "py"),
     File("Pkg", "", "tmp"), File("Pkg", "", "ps1"), File("Pkg", ".Tests", "ps1"),
     File("demistomock", "", "ps1")}

PackageDirs == {d \in SUBSET PackageFileUniverse : Cardinality(d) <= MaxPackageFiles}

\* get_all_docker_images(script_obj=package.script) of the package
DeclaredImages == <<"py3img">>

NoPackage == [script_type |-> "", files |-> {}]
NoPackageFacts == [images |-> <<>>, lint_files |-> {}]

\* None where a path is expected
NoPath == File("", "", "")

\* package.unittest_path: the unit-test file of the package, or None
unittest_path(package) ==
    LET tests == {f \in package.files :
                     \/ package.script_type = TYPE_PYTHON /\ f.tail = "_test" /\ f.ext = "py"
                     \/ package.script_type = TYPE_PWSH /\ f.tail = ".Tests" /\ f.ext = "ps1"}
    IN  IF tests = {} THEN NoPath ELSE CHOOSE f \in tests : TRUE

\* the glob of _get_lint_files for the package's script type
GlobLintFiles(package) ==
    IF package.script_type = TYPE_PYTHON
    THEN {f \in package.files :
             /\ f.ext = "py"
             /\ f # File("__init__", "", "py")
             /\ f.ext # "tmp"}
    ELSE IF package.script_type = TYPE_PWSH
    THEN {f \in package.files :
             /\ \/ f.ext = "ps1"
                \/ f = File("CommonServerPowerShell", "", "ps1")
                \/ f = File("demistomock", "", "ps1")
             /\ ~(f.tail = ".Tests" /\ f.ext = "ps1")}
    ELSE {}

\* _get_lint_files: package_dir_path, a Path, never equals the strings it is
\* compared with, so the names of the test modules are always taken out
get_lint_files(test_modules, package) ==
    LET test_module_names == {m.name : m \in DOMAIN test_modules}
        without_modules == GlobLintFiles(package) \ test_module_names
    IN  IF unittest_path(package) # NoPath
        THEN without_modules \ {unittest_path(package)}
        ELSE without_modules

\* BaseLinter.has_lint_files
has_lint_files(lint_global_facts) == DOMAIN lint_global_facts.test_modules # {}

\* BaseLinter.has_unit_tests
has_unit_tests(package) == unittest_path(package) # NoPath

\* BaseLinter.linter_is_not_disabled
linter_is_not_disabled(linter, disabled_flags) == DisableFlagOf(linter) \notin disabled_flags

\* should_run of each linter variant
should_run(linter, lint_global_facts, package, disabled_flags) ==
    LET enabled == linter_is_not_disabled(linter, disabled_flags)
        python == package.script_type = TYPE_PYTHON
    IN  CASE linter = "Flake8" ->
                (has_lint_files(lint_global_facts) \/ has_unit_tests(package)) /\ python /\ enabled
          [] linter \in {"MyPy", "Vulture", "Bandit", "XSOAR Linter"} ->
                has_lint_files(lint_global_facts) /\ python /\ enabled
          [] linter = "Pylint" ->
                python /\ has_lint_files(lint_global_facts) /\ lint_global_facts.has_docker_engine
                /\ enabled
          [] linter = "Powershell Analyze" ->
                package.script_type = TYPE_PWSH /\ has_lint_files(lint_global_facts)
                /\ lint_global_facts.has_docker_engine /\ enabled
          [] linter = "Pytest" ->
                python /\ has_unit_tests(package) /\ lint_global_facts.has_docker_engine /\ enabled
          [] linter = "Powershell Test" ->
                package.script_type = TYPE_PWSH /\ lint_global_facts.has_docker_engine /\ enabled

\* build_lint_global_facts is called in some environment
CallBuildLintGlobalFacts ==
    /\ fpc = "start"
    /\ genv' \in GlobalEnvs
    /\ fpc' = "building"
    /\ UNCHANGED <<global_facts, fpackage, package_facts, lint_flags, decisions>>
    /\ UNCHANGED <<linterVars, dockerVars, initVars, managerVars, coverageVars, exportVars,
                   xsoarVars, poolVars, imageVars, pylintVars, versionVars>>

\* build_lint_global_facts: repository, docker engine, then test modules
BuildLintGlobalFacts ==
    /\ fpc = "building"
    /\ IF has_docker_engine_of(genv) = "ValueError"
       THEN fpc' = "raised" /\ UNCHANGED global_facts
       ELSE IF get_test_modules(genv).exit
       THEN fpc' = "exited" /\ UNCHANGED global_facts
       ELSE /\ global_facts' = [content_repo |-> genv.content_repo,
                                has_docker_engine |-> has_docker_engine_of(genv) = "True",
                                test_modules |-> get_test_modules(genv).modules]
            /\ fpc' = "global_facts"
    /\ genv' = IF fpc' = "global_facts" THEN NoEnv ELSE genv
    /\ UNCHANGED <<fpackage, package_facts, lint_flags, decisions>>
    /\ UNCHANGED <<linterVars, dockerVars, initVars, managerVars, coverageVars, exportVars,
                   xsoarVars, poolVars, imageVars, pylintVars, versionVars>>

\* run_dev_packages builds the linters: the constructor of a container linter
\* logs in to the registry through the engine and handles docker.errors.APIError only
BuildLinters ==
    /\ fpc = "global_facts"
    /\ \E disabled \in {d \in SUBSET FlagNames : Cardinality(d) <= MaxDisabledFlags},
          login \in {"ok", "APIError", "ConnectionError"} :
          /\ global_facts.has_docker_engine => login # "ConnectionError"
          /\ ~global_facts.has_docker_engine => login # "ok"
          /\ lint_flags' = disabled
          /\ fpc' = IF login = "ConnectionError" THEN "raised_in_linters" ELSE "linters"
    /\ UNCHANGED <<genv, global_facts, fpackage, package_facts, decisions>>
    /\ UNCHANGED <<linterVars, dockerVars, initVars, managerVars, coverageVars, exportVars,
                   xsoarVars, poolVars, imageVars, pylintVars, versionVars>>

\* run_linters: build_package_facts of a package
BuildPackageFacts ==
    /\ fpc = "linters"
    /\ \E script_type \in {TYPE_PYTHON, TYPE_PWSH}, files \in PackageDirs :
          LET package == [script_type |-> script_type, files |-> files]
              images == DeclaredImages
          IN  /\ fpackage' = package
              /\ package_facts' =
                    [images |-> IF script_type = TYPE_PYTHON /\ global_facts.has_docker_engine
                                THEN images ELSE <<>>,
                     lint_files |-> get_lint_files(global_facts.test_modules, package)]
    /\ fpc' = "package_facts"
    /\ UNCHANGED <<genv, global_facts, lint_flags, decisions>>
    /\ UNCHANGED <<linterVars, dockerVars, initVars, managerVars, coverageVars, exportVars,
                   xsoarVars, poolVars, imageVars, pylintVars, versionVars>>

\* run_linters: should_run of each linter on the package
DecideShouldRun ==
    /\ fpc = "package_facts"
    /\ decisions' = [l \in FactsLinters |->
                        should_run(l, global_facts, fpackage, lint_flags)]
    /\ fpc' = "decided"
    /\ UNCHANGED <<genv, global_facts, fpackage, package_facts, lint_flags>>
    /\ UNCHANGED <<linterVars, dockerVars, initVars, managerVars, coverageVars, exportVars,
                   xsoarVars, poolVars, imageVars, pylintVars, versionVars>>

FactsNext ==
    \/ CallBuildLintGlobalFacts
    \/ BuildLintGlobalFacts
    \/ BuildLinters
    \/ BuildPackageFacts
    \/ DecideShouldRun

\* The state of a fresh process: the class-level accumulators are empty and
\* nothing has been called.
(***************************************************************************)
(* coverage_report_editor (coverage_utils.py)                              *)
(***************************************************************************)
\* largest row id of the file table
MaxRowId == 3

\* most rows of the file table
MaxFileRows == 2

\* the id in 'UPDATE file SET path = ? WHERE id = ?'
UpdateRowId == 1

\* the paths recorded inside the container
ContainerPaths == {"/devwork/a.py", "/devwork/b.py", "/devwork/c.py"}

\* the absolute paths of the measured code file on the host
HostPaths == {"/content/PkgA/a.py", "/content/PkgB/b.py"}

\* the file tables of a .coverage file: row id to path
FileTables ==
    UNION {[ids -> ContainerPaths] :
              ids \in {s \in SUBSET (1..MaxRowId) : Cardinality(s) <= MaxFileRows}}

NoCoverageFile == [exists |-> FALSE, file_table |-> <<>>]

\* coverage_report_editor(coverage_file, code_file_absolute_path): the file
\* table after the call and whether the file is left in place
coverage_report_editor(file_table, code_file_absolute_path) ==
    LET index == Cardinality(DOMAIN file_table)
    IN  IF index # 1
        THEN [exists |-> FALSE, file_table |-> file_table]
        ELSE [exists |-> TRUE,
              file_table |-> [id \in DOMAIN file_table |->
                                 IF id = UpdateRowId THEN code_file_absolute_path
                                 ELSE file_table[id]]]

\* the test run in the container leaves a .coverage file
CoverageFileWritten ==
    /\ cov_pc = "none"
    /\ \E file_table \in FileTables :
          coverage_file' = [exists |-> TRUE, file_table |-> file_table]
    /\ cov_pc' = "written"
    /\ UNCHANGED <<cov_call, linterVars, dockerVars, initVars, managerVars, factsVars,
                   exportVars, xsoarVars, poolVars, imageVars, pylintVars, versionVars>>

\* the call coverage_report_editor(coverage_file, code_file_absolute_path)
CoverageReportEditor ==
    /\ cov_pc = "written"
    /\ \E code_file_absolute_path \in HostPaths :
          /\ coverage_file' = coverage_report_editor(coverage_file.file_table,
                                                     code_file_absolute_path)
          /\ cov_call' = code_file_absolute_path
    /\ cov_pc' = "edited"
    /\ UNCHANGED <<linterVars, dockerVars, initVars, managerVars, factsVars, exportVars,
                   xsoarVars, poolVars, imageVars, pylintVars, versionVars>>

CoverageNext ==
    \/ CoverageFileWritten
    \/ CoverageReportEditor

(***************************************************************************)
(* LintManager.analyze_results, JSON output (lint_manager.py)              *)
(***************************************************************************)
\* most records of a pre-existing JSON array
MaxExistingRecords == 2

\* most reports of each report list when the results are analyzed
MaxReports == 1

\* the linter objects given to analyze_results, in the order of ALL_LINTERS_CLASSES
ExportLinters == <<"Bandit", "Flake8", "MyPy", "Pytest", "Vulture">>

\* the linter_name of the linter's json_output_formatter, None without one
JsonFormatterOf(linter) ==
    IF linter = "Flake8" THEN "flake8"
    ELSE IF linter = "MyPy" THEN "mypy"
    ELSE IF linter = "Vulture" THEN "vulture"
    ELSE None

\* Formatter.enrich_output: the record of one report
JsonRecord(linter_name, fail_type, report) ==
    [linter |-> linter_name, severity |-> fail_type, name |-> report.package_name]

\* Formatter.format(fail_type, reports): one record for each report
FormatReports(linter_name, fail_type, reports) ==
    [i \in 1..Len(reports) |-> JsonRecord(linter_name, fail_type, reports[i])]

\* BaseLinter.create_json_output, on the report lists of the class
linter_create_json_output(linter, failed, warned) ==
    IF JsonFormatterOf(linter) = None THEN <<>>
    ELSE FormatReports(JsonFormatterOf(linter), "error", failed)
            \o FormatReports(JsonFormatterOf(linter), "warning", warned)

RECURSIVE linters_json_outputs(_, _, _)
\* [output for linter in linters for output in linter.create_json_output()]
linters_json_outputs(linters, failed, warned) ==
    IF linters = <<>> THEN <<>>
    ELSE linter_create_json_output(Head(linters), failed, warned)
            \o linters_json_outputs(Tail(linters), failed, warned)

\* the records a JSON file of an earlier run can hold
ExistingRecords == {JsonRecord("flake8", "error", [package_name |-> "PkgA"]),
                    JsonRecord("mypy", "warning", [package_name |-> "PkgB"])}

\* no file at the path
NoJsonFile == [kind |-> "missing", records |-> <<>>]

\* what the target path can hold: nothing, a JSON array of records, a JSON
\* object, or text that is not JSON
JsonFiles ==
    {[kind |-> "array", records |-> r] :
        r \in UNION {[1..k -> ExistingRecords] : k \in 0..MaxExistingRecords}}
      \cup {NoJsonFile, [kind |-> "object", records |-> <<>>],
            [kind |-> "corrupt", records |-> <<>>]}

\* the report lists a finished run can leave
ReportLists ==
    UNION {[1..k -> {UnsuccessfulPackageReport(package_name, <<"E">>) :
                        package_name \in PackageNames}] : k \in 0..MaxReports}

\* get_json(path): the parsed content when the file holds JSON, and a value
\* that is not a list when it does not
get_json(file) ==
    [is_list |-> file.kind = "array", value |-> file.records]

\* a mutant of create_json_output: the pre-existing content is overwritten
create_json_output_overwrite(path, file, linters, failed, warned) ==
    linters_json_outputs(linters, failed, warned)

\* LintManager.create_json_output
create_json_output(path, file, linters, failed, warned) ==
    LET existing_json_content ==
            IF path # "" /\ file.kind # "missing"
            THEN IF get_json(file).is_list THEN get_json(file).value ELSE <<>>
            ELSE <<>>
    IN  existing_json_content \o linters_json_outputs(linters, failed, warned)

\* the package tasks have ended: the report lists are filled, the target path
\* holds what earlier runs left
LintRunEnds ==
    /\ json_pc = "running"
    /\ \E path \in {"", "lint_outputs.json"}, file \in JsonFiles,
          failed \in ReportLists, warned \in ReportLists :
          /\ json_file_path' = path
          /\ json_file' = IF path = "" THEN NoJsonFile ELSE file
          /\ FAILED_PACKAGES' = failed
          /\ WARNING_PACKAGES' = warned
    /\ json_call' = json_file'
    /\ json_pc' = "analyze"
    /\ UNCHANGED <<lastCall, dockerVars, initVars, managerVars, factsVars, coverageVars,
                   xsoarVars, poolVars, imageVars, pylintVars, versionVars>>

\* analyze_results from '# JSON output' on: the dump to json_file_path and
\* the call of create_json_output that follows it
AnalyzeResultsJsonOutput ==
    /\ json_pc = "analyze"
    /\ json_file' = IF json_file_path # ""
                    THEN [kind |-> "array",
                          records |-> create_json_output(json_file_path, json_file,
                                                         ExportLinters, FAILED_PACKAGES,
                                                         WARNING_PACKAGES)]
                    ELSE json_file
    /\ json_pc' = "done"
    /\ UNCHANGED <<json_file_path, json_call, linterVars, dockerVars, initVars, managerVars,
                   factsVars, coverageVars, xsoarVars, poolVars, imageVars, pylintVars, versionVars>>

ExportNext ==
    \/ LintRunEnds
    \/ AnalyzeResultsJsonOutput

(***************************************************************************)
(* XSOARLinter.run and _pylint_plugin (lint_refactor/linters/xsoar_linter) *)
(***************************************************************************)
\* plugin_dirs.iterdir(): the entries of resources/pylint_plugins
PluginDirEntries == <<"base_checker.py", "__pycache__", "community_level_checker.py",
                      "base_checker.pyc", "partner_level_checker.py",
                      "certified_partner_level_checker.py", "xsoar_level_checker.py">>

\* file.is_file()
IsFile(entry) == entry # "__pycache__"

\* file.name.split('.')[1]
Extension(entry) == IF entry = "base_checker.pyc" THEN "pyc" ELSE "py"

\* file.is_file() and file.name != '__pycache__' and file.name.split('.')[1] != 'pyc'
IsPluginFile(entry) == IsFile(entry) /\ entry # "__pycache__" /\ Extension(entry) # "pyc"

PluginFiles == {PluginDirEntries[i] : i \in {j \in DOMAIN PluginDirEntries :
                                                IsPluginFile(PluginDirEntries[j])}}

\* what a package directory can hold when the linter starts: the package's
\* code, and links an interrupted earlier run left behind
PackageDirContents == {{"Pkg.py"} \cup left : left \in SUBSET PluginFiles}

\* a mutant of the finally clause: the files are removed on a normal exit only
CleanupOnNormalExitOnly(raised) == ~raised

\* try: ... yield; finally: the removal loop runs however the block is left
CleanupRuns(raised) == TRUE

\* the support tiers, from the lowest
SupportLevels == <<"base", "community", "partner", "certified partner", "xsoar">>

\* a table in which the partner tier leaves out the community checker
SupportLevelDictWithoutCommunity ==
    [support_level \in Range(SupportLevels) |->
        IF support_level = "base" THEN <<"base_checker">>
        ELSE IF support_level = "community" THEN <<"base_checker", "community_level_checker">>
        ELSE <<"base_checker", "partner_level_checker">>]

\* XSOARLinter.SUPPORT_LEVEL_TO_CHECK_DICT, each value after split(',')
SUPPORT_LEVEL_TO_CHECK_DICT ==
    [support_level \in Range(SupportLevels) |->
        IF support_level = "base" THEN <<"base_checker">>
        ELSE IF support_level = "community" THEN <<"base_checker", "community_level_checker">>
        ELSE IF support_level = "partner"
        THEN <<"base_checker", "community_level_checker", "partner_level_checker">>
        ELSE IF support_level = "certified partner"
        THEN <<"base_checker", "community_level_checker", "partner_level_checker",
               "certified_partner_level_checker">>
        ELSE <<"base_checker", "community_level_checker", "partner_level_checker",
               "certified_partner_level_checker", "xsoar_level_checker">>]

\* the keys of the message table each checker module exports (base_msg,
\* community_msg, ...): one message identifier for each checker
CheckerMessages(checker) == <<"msg-of-" \o checker>>

RECURSIVE MessagesOf(_)
\* the loop over support: the message identifiers of the checkers, in order
MessagesOf(support) ==
    IF support = <<>> THEN <<>>
    ELSE CheckerMessages(Head(support)) \o MessagesOf(Tail(support))

\* get_pack_metadata(...): no support_level key, or one of the tiers, or a
\* level the table does not know
NoSupportLevel == [name |-> "pack"]
PackMetadata ==
    {NoSupportLevel}
    \cup {[name |-> "pack", support_level |-> l] : l \in Range(SupportLevels) \cup {"developer"}}

\* XSOARLinter.build_linter_command: the plugins loaded and the messages enabled
build_linter_command(pack_metadata) ==
    LET support_level == IF "support_level" \in DOMAIN pack_metadata
                         THEN pack_metadata.support_level ELSE "base"
        support == IF support_level \in DOMAIN SUPPORT_LEVEL_TO_CHECK_DICT
                   THEN SUPPORT_LEVEL_TO_CHECK_DICT[support_level] ELSE <<>>
    IN  [pack_metadata |-> pack_metadata,
         checker_path |-> support,
         message_enable |-> MessagesOf(support)]

NoCommand == [pack_metadata |-> NoSupportLevel, checker_path |-> <<>>,
              message_enable |-> <<"none">>]

\* run is called: with _pylint_plugin(self.package.path) is entered
XsoarRunStart ==
    /\ xpc = "idle"
    /\ \E contents \in PackageDirContents : package_dir' = contents
    /\ xpc' = "linking"
    /\ xfile' = 1
    /\ xraised' = None
    /\ xresult' = SUCCESS
    /\ xexit_code' = 0
    /\ xcommand' = NoCommand
    /\ UNCHANGED <<linterVars, dockerVars, initVars, managerVars, factsVars, coverageVars,
                   exportVars, poolVars, imageVars, pylintVars, versionVars>>

\* where an exception in the with block or in the linking loop leads
AfterException ==
    IF CleanupRuns(TRUE) THEN "cleanup" ELSE "left"

\* one round of the loop that links: os.symlink(file, package_path / file.name)
\* raises when the name exists in the package directory, or for a reason of
\* the file system
LinkPluginFile ==
    /\ xpc = "linking"
    /\ xfile <= Len(PluginDirEntries)
    /\ LET file == PluginDirEntries[xfile]
       IN  IF ~IsPluginFile(file)
           THEN /\ xfile' = xfile + 1
                /\ UNCHANGED <<xpc, package_dir, xraised>>
           ELSE \/ /\ file \notin package_dir
                   /\ package_dir' = package_dir \cup {file}
                   /\ xfile' = xfile + 1
                   /\ UNCHANGED <<xpc, xraised>>
                \/ /\ xraised' = "linking"
                   /\ xpc' = AfterException
                   /\ xfile' = 1
                   /\ UNCHANGED package_dir
    /\ UNCHANGED <<xresult, xexit_code, xcommand, linterVars, dockerVars, initVars, managerVars, factsVars,
                   coverageVars, exportVars, poolVars, imageVars, pylintVars, versionVars>>

\* the loop ends and the generator yields: the with block is entered
PluginsLinked ==
    /\ xpc = "linking"
    /\ xfile > Len(PluginDirEntries)
    /\ xpc' = "with_block"
    /\ UNCHANGED <<package_dir, xfile, xraised, xresult, xexit_code, xcommand, linterVars, dockerVars, initVars,
                   managerVars, factsVars, coverageVars, exportVars, poolVars, imageVars, pylintVars, versionVars>>

\* XSOARLinterExitCode: SUCCESS = 0, FAIL = 1, PYLINT_FAILURE = 2, WARNING = 3
XsoarExitFAIL == 1
XsoarExitPYLINT_FAILURE == 2
XsoarExitWARNING == 3
\* exit codes run_command_os returns for the pylint process
XsoarExitCodes == 0..7

\* Python's a & b on non-negative integers
RECURSIVE BitAnd(_, _)
BitAnd(a, b) ==
    IF a = 0 \/ b = 0 THEN 0
    ELSE (a % 2) * (b % 2) + 2 * BitAnd(a \div 2, b \div 2)

\* XSOARLinter.run: the three tests of exit_code, in their order
xsoar_linter_result(exit_code) ==
    LET after_warning == IF BitAnd(exit_code, XsoarExitWARNING) # 0 THEN WARNING
                         ELSE SUCCESS
        after_pylint_failure == IF BitAnd(exit_code, XsoarExitPYLINT_FAILURE) # 0 THEN FAIL
                                ELSE after_warning
    IN  IF BitAnd(exit_code, XsoarExitFAIL) # 0 THEN FAIL ELSE after_pylint_failure

\* the with block: run_command_os, the classification of the exit code and
\* add_non_successful_package; either of the calls can raise
RunXsoarCommand ==
    /\ xpc = "with_block"
    /\ \/ \E exit_code \in XsoarExitCodes :
             /\ xexit_code' = exit_code
             /\ xresult' = xsoar_linter_result(exit_code)
             /\ xraised' = None
             /\ xpc' = IF CleanupRuns(FALSE) THEN "cleanup" ELSE "left"
       \/ /\ xraised' = "with_block"
          /\ xpc' = AfterException
          /\ UNCHANGED <<xresult, xexit_code>>
    /\ xfile' = 1
    /\ \E pack_metadata \in PackMetadata : xcommand' = build_linter_command(pack_metadata)
    /\ UNCHANGED <<package_dir, linterVars, dockerVars, initVars, managerVars, factsVars,
                   coverageVars, exportVars, poolVars, imageVars, pylintVars, versionVars>>

\* one round of the loop of the finally clause: unlink when the name exists
UnlinkPluginFile ==
    /\ xpc = "cleanup"
    /\ xfile <= Len(PluginDirEntries)
    /\ LET file == PluginDirEntries[xfile]
       IN  package_dir' = IF IsPluginFile(file) THEN package_dir \ {file} ELSE package_dir
    /\ xfile' = xfile + 1
    /\ UNCHANGED <<xpc, xraised, xresult, xexit_code, xcommand, linterVars, dockerVars, initVars, managerVars,
                   factsVars, coverageVars, exportVars, poolVars, imageVars, pylintVars, versionVars>>

\* the finally clause ends: run returns, or the pending exception leaves it
XsoarRunLeft ==
    /\ xpc = "cleanup"
    /\ xfile > Len(PluginDirEntries)
    /\ xpc' = "left"
    /\ UNCHANGED <<package_dir, xfile, xraised, xresult, xexit_code, xcommand, linterVars, dockerVars, initVars,
                   managerVars, factsVars, coverageVars, exportVars, poolVars, imageVars, pylintVars, versionVars>>

XsoarNext ==
    \/ XsoarRunStart
    \/ LinkPluginFile
    \/ PluginsLinked
    \/ RunXsoarCommand
    \/ UnlinkPluginFile
    \/ XsoarRunLeft

(***************************************************************************)
(* Package tasks that run a docker-backed linter on the worker pool of     *)
(* run_dev_packages.  lint_manager.py creates the pool with max_workers=1, *)
(* lint_refactor/lint_manager.py with max_workers=parallel.  Lint runs     *)
(* follow one another in the same process, so the class attributes of the  *)
(* linters live on from one run to the next.                               *)
(***************************************************************************)
\* most package tasks of one run
MaxPoolTasks == 2
\* most lint runs in one process
MaxRuns == 2

\* max_workers of the ThreadPoolExecutor of each module's run_dev_packages
PoolWorkers(module, par) == IF module = "lint_refactor" THEN par ELSE max_workers

\* self.packages: _get_packages appends one package object per input
\* directory, so a directory given twice is there twice
PoolPackageLists == UNION {[1..k -> PackageNames] : k \in 1..MaxPoolTasks}

\* the docker-backed variant the tasks run, and the image of the packages
PoolLinter == "Powershell Test"
PoolImage == "py3img"

\* what the engine does during the container runs of a task: logs and
\* exception messages are one uncategorized line
PoolOutcomes == {o \in RunOutcomes : o.text = <<":">>}

\* container_name of run_on_image: f'{package.name}-{self.linter_name}'
ContainerName(package_name, linter_name, test_image) == <<package_name, linter_name>>

NoPool == [workers |-> 0, packages |-> <<>>, keep_container |-> FALSE]
QueuedTask == [pc |-> "queued", trial |-> 0, result |-> SUCCESS, output |-> <<>>,
               failed_by |-> "none"]

PoolTasks == 1..Len(ptask)
\* the tasks a worker thread is executing
PoolActive == {i \in PoolTasks : ptask[i].pc \notin {"queued", "done", "raised"}}
\* the tasks inside run_on_image
InContainerRun == {i \in PoolTasks : ptask[i].pc \in {"remove_stale", "containers_run", "wait"}}
NameOfTask(i) == ContainerName(pool.packages[i], PoolLinter, PoolImage)

\* run_dev_packages of a manager of either module: the tasks are submitted
\* in path order
PoolRunStart ==
    /\ ppc \in {"idle", "finished"}
    /\ prun < MaxRuns
    /\ \E module \in LintModules, par \in 1..MaxParallel, pkgs \in PoolPackageLists,
          keep_container \in BOOLEAN :
          /\ pool' = [workers |-> PoolWorkers(module, par), packages |-> SortByPath(pkgs),
                      keep_container |-> keep_container]
          /\ ptask' = [i \in 1..Len(pkgs) |-> QueuedTask]
    /\ prun' = prun + 1
    /\ produced' = <<>>
    /\ ppc' = "running"
    /\ UNCHANGED <<containers, linterVars, dockerVars, initVars, managerVars, factsVars,
                   coverageVars, exportVars, xsoarVars, imageVars, pylintVars, versionVars>>

\* a worker thread takes the next work item of the queue
PoolTaskStart ==
    /\ ppc = "running"
    /\ \E i \in PoolTasks :
          /\ ptask[i].pc = "queued"
          /\ \A j \in 1..(i - 1) : ptask[j].pc # "queued"
          /\ Cardinality(PoolActive) < pool.workers
          /\ ptask' = [ptask EXCEPT ![i].pc = "image_create"]
    /\ UNCHANGED <<ppc, prun, pool, containers, produced, linterVars, dockerVars, initVars,
                   managerVars, factsVars, coverageVars, exportVars, xsoarVars, imageVars, pylintVars, versionVars>>

\* the image creation loop of run: it ends with errors or without
PoolImageCreate ==
    /\ \E i \in PoolTasks, with_errors \in BOOLEAN :
          /\ ptask[i].pc = "image_create"
          /\ ptask' = [ptask EXCEPT ![i].pc = IF with_errors THEN "creation_failed"
                                             ELSE "remove_stale",
                                    ![i].failed_by = IF with_errors THEN "image_creation"
                                                    ELSE "none"]
    /\ UNCHANGED <<ppc, prun, pool, containers, produced, linterVars, dockerVars, initVars,
                   managerVars, factsVars, coverageVars, exportVars, xsoarVars, imageVars, pylintVars, versionVars>>

\* the else branch of run: FAILED_IMAGE_CREATIONS[package.name] is read,
\* appended to in place and stored
PoolRecordImageCreationFailure ==
    /\ \E i \in PoolTasks :
          /\ ptask[i].pc = "creation_failed"
          /\ IF pool.packages[i] \in DOMAIN FAILED_IMAGE_CREATIONS
             THEN /\ FAILED_IMAGE_CREATIONS' =
                         [FAILED_IMAGE_CREATIONS EXCEPT ![pool.packages[i]] =
                             Append(@, FailedImageCreation(PoolImage, <<":">>))]
                  /\ ptask' = [ptask EXCEPT ![i].pc = "add_report"]
             ELSE /\ ptask' = [ptask EXCEPT ![i].pc = "raised"]
                  /\ UNCHANGED FAILED_IMAGE_CREATIONS
    /\ UNCHANGED <<ppc, prun, pool, containers, produced, linterVars, dpc, dself, imgIdx,
                   trial, dockerLocals, attempts, raisedBy, initVars, managerVars, factsVars,
                   coverageVars, exportVars, xsoarVars, imageVars, pylintVars, versionVars>>

\* run_on_image: self._docker_remove_container(container_name)
PoolRemoveStale ==
    /\ \E i \in PoolTasks :
          /\ ptask[i].pc = "remove_stale"
          /\ containers' = {c \in containers : c.name # NameOfTask(i)}
          /\ ptask' = [ptask EXCEPT ![i].pc = "containers_run"]
    /\ UNCHANGED <<ppc, prun, pool, produced, linterVars, dockerVars, initVars,
                   managerVars, factsVars, coverageVars, exportVars, xsoarVars, imageVars, pylintVars, versionVars>>

\* the end of one trial of the run loop with what run_on_image returned
TrialEnds(i, r) ==
    LET leave == r[1] \in {FAIL, SUCCESS} \/ ptask[i].trial = 1
        result == IF r[1] \in {FAIL, SUCCESS} THEN r[1] ELSE CoerceRerun(r[1], ptask[i].trial)
    IN  [ptask EXCEPT ![i].pc = IF leave THEN "add_report" ELSE "remove_stale",
                      ![i].trial = IF leave THEN 0 ELSE @ + 1,
                      ![i].result = result,
                      ![i].output = r[2],
                      ![i].failed_by = IF leave /\ result = FAIL THEN "run" ELSE @]

\* an engine call of run_on_image raises: except Exception
EngineRaises == [kind |-> "exception", code |-> 0, text |-> <<":">>]

\* run_on_image: self._docker_client.containers.run(name=container_name, ...),
\* which the engine refuses when the name is taken
PoolContainersRun ==
    /\ \E i \in PoolTasks :
          /\ ptask[i].pc = "containers_run"
          /\ IF \E c \in containers : c.name = NameOfTask(i)
             THEN /\ ptask' = TrialEnds(i, run_on_image(PoolLinter, EngineRaises))
                  /\ UNCHANGED containers
             ELSE /\ containers' = containers \cup {[name |-> NameOfTask(i), task |-> i]}
                  /\ ptask' = [ptask EXCEPT ![i].pc = "wait"]
    /\ UNCHANGED <<ppc, prun, pool, produced, linterVars, dockerVars, initVars,
                   managerVars, factsVars, coverageVars, exportVars, xsoarVars, imageVars, pylintVars, versionVars>>

\* run_on_image from container_obj.wait to its return: the container exits
\* and is removed unless lint_global_facts.keep_container, or an engine call
\* raises, as it does when the container is gone, and the except branch
\* returns RERUN without a call of container_obj.remove
PoolContainerWait ==
    /\ \E i \in PoolTasks :
          /\ ptask[i].pc = "wait"
          /\ LET own == [name |-> NameOfTask(i), task |-> i]
             IN  \E o \in PoolOutcomes :
                    /\ own \notin containers => o.kind = "exception"
                    /\ ptask' = TrialEnds(i, run_on_image(PoolLinter, o))
                    /\ containers' = IF o.kind = "exited" /\ ~pool.keep_container
                                     THEN containers \ {own}
                                     ELSE containers
    /\ UNCHANGED <<ppc, prun, pool, produced, linterVars, dockerVars, initVars,
                   managerVars, factsVars, coverageVars, exportVars, xsoarVars, imageVars, pylintVars, versionVars>>

\* run: self.add_non_successful_package(linter_result, output)
PoolAddReport ==
    /\ \E i \in PoolTasks :
          /\ ptask[i].pc = "add_report"
          /\ LET a == add_non_successful_package(FAILED_PACKAGES, WARNING_PACKAGES,
                                                 pool.packages[i], ptask[i].result,
                                                 ptask[i].output)
             IN  /\ FAILED_PACKAGES' = a.failed
                 /\ WARNING_PACKAGES' = a.warned
                 /\ produced' = produced \o SubSeq(a.failed, Len(FAILED_PACKAGES) + 1,
                                                   Len(a.failed))
                 /\ ptask' = [ptask EXCEPT ![i].pc = IF a.raised THEN "raised" ELSE "done"]
    /\ UNCHANGED <<ppc, prun, pool, containers, lastCall, dockerVars, initVars,
                   managerVars, factsVars, coverageVars, exportVars, xsoarVars, imageVars, pylintVars, versionVars>>

\* the with block of run_dev_packages is left when every task has ended
PoolRunEnd ==
    /\ ppc = "running"
    /\ \A i \in PoolTasks : ptask[i].pc \in {"done", "raised"}
    /\ ppc' = "finished"
    /\ UNCHANGED <<prun, pool, ptask, containers, produced, linterVars, dockerVars,
                   initVars, managerVars, factsVars, coverageVars, exportVars, xsoarVars, imageVars, pylintVars, versionVars>>

PoolNext ==
    \/ PoolRunStart
    \/ PoolTaskStart
    \/ PoolImageCreate
    \/ PoolRecordImageCreationFailure
    \/ PoolRemoveStale
    \/ PoolContainersRun
    \/ PoolContainerWait
    \/ PoolAddReport
    \/ PoolRunEnd

(***************************************************************************)
(* DockerBaseLinter._docker_image_create and the branch of run that        *)
(* follows the image creation loop                                         *)
(***************************************************************************)
\* lint_global_facts.requirements_python2 / requirements_python3
RequirementLists == {<<>>, <<"pytest">>}

NoImageCall == [docker_image |-> "none"]

\* what a call leaves for the comparison with the next one
InputsAndTag(call) ==
    [docker_image |-> call.docker_image, pypi_packs |-> call.pypi_packs,
     pack_type |-> call.pack_type, test_image_name |-> call.test_image_name]

\* image_id, errors = self._docker_image_create(package, test_image)
DockerImageCreateCall ==
    /\ image_pc \in {"idle", "ran", "creation_failed"}
    /\ \E docker_image \in ImageNames, script_type \in {TYPE_PYTHON, TYPE_PWSH},
          requirements_python2 \in RequirementLists,
          requirements_python3 \in RequirementLists, o \in ImageCreateOutcomes :
          LET requirements == get_requirements(docker_image, requirements_python2,
                                               requirements_python3)
              r == docker_image_create(docker_image, requirements, script_type, o)
          IN  icall' = [docker_image |-> docker_image, pypi_packs |-> requirements,
                        pack_type |-> script_type,
                        test_image_name |-> r[1], errors |-> r[2],
                        second_stage |-> IF o.template_error THEN None
                                         ELSE SecondStageImage(r[1], o.ci, o.failing_tries),
                        builds_failed |-> ~o.template_error
                                          /\ o.failing_tries >= (IF o.ci THEN BuildTriesCI
                                                                 ELSE 1),
                        build_docker_called |-> ~o.template_error,
                        package_files |->
                            LET files == IF icall = NoImageCall THEN InitialPackageFiles
                                         ELSE icall.package_files
                            IN  IF o.template_error THEN files
                                ELSE build_docker_files(files, o.ci, o.failing_tries)]
    /\ iprev' = IF icall = NoImageCall THEN NoImageCall ELSE InputsAndTag(icall)
    /\ container_image' = None
    /\ image_pc' = "created"
    /\ UNCHANGED <<linterVars, dockerVars, initVars, managerVars, factsVars, coverageVars,
                   exportVars, xsoarVars, poolVars, pylintVars, versionVars>>

\* if image_id and not errors: run_on_image(..., image_id), which starts the
\* container with image=test_image
RunCreatedImage ==
    /\ image_pc = "created"
    /\ icall.test_image_name # "" /\ ~Truthy(icall.errors)
    /\ container_image' = icall.test_image_name
    /\ image_pc' = "ran"
    /\ UNCHANGED <<icall, iprev, linterVars, dockerVars, initVars, managerVars, factsVars,
                   coverageVars, exportVars, xsoarVars, poolVars, pylintVars, versionVars>>

\* else: the image creation failure branch of run
ImageCreationFailed ==
    /\ image_pc = "created"
    /\ ~(icall.test_image_name # "" /\ ~Truthy(icall.errors))
    /\ image_pc' = "creation_failed"
    /\ UNCHANGED <<icall, iprev, container_image, linterVars, dockerVars, initVars,
                   managerVars, factsVars, coverageVars, exportVars, xsoarVars, poolVars, pylintVars, versionVars>>

ImageNext ==
    \/ DockerImageCreateCall
    \/ RunCreatedImage
    \/ ImageCreationFailed

(***************************************************************************)
(* The containerized Pylint variant (lint_refactor/linters/pylint_linter)   *)
(***************************************************************************)
\* exit codes of pylint: the OR of the flag bits 1, 2, 4, 8, 16 and 32
PylintExitCodes == 0..63
\* whether the flag bit (a power of two) is set in the exit code
BitSet(code, bit) == (code \div bit) % 2 = 1

NoPylintCall == [test_image |-> "none", container_exit_code |-> 0, linter_result |-> SUCCESS,
                 returned |-> <<SUCCESS, <<>>>>]

\* run_on_image of the Pylint variant on an image whose container exits
PylintRunOnImage ==
    /\ \E test_image \in ImageNames, container_exit_code \in PylintExitCodes,
          text \in ContainerTexts :
          pylint_call' =
              [test_image |-> test_image,
               container_exit_code |-> container_exit_code,
               linter_result |-> process_docker_results("Pylint", container_exit_code),
               returned |-> run_on_image("Pylint", [kind |-> "exited",
                                                    code |-> container_exit_code,
                                                    text |-> text])]
    /\ UNCHANGED <<linterVars, dockerVars, initVars, managerVars, factsVars, coverageVars,
                   exportVars, xsoarVars, poolVars, imageVars, versionVars>>

PylintNext == PylintRunOnImage

(***************************************************************************)
(* get_python_version_from_image (lint_refactor/lint_docker_utils.py) and   *)
(* DockerBaseLinter._get_requirements                                       *)
(***************************************************************************)
\* images the version is asked of
VersionImages == {"demisto/python", "demisto/powershell"}
\* 'pwsh' in image or 'powershell' in image
IsPowershellImage(image) == image = "demisto/powershell"

\* python numbers are kept in tenths: 3.8 is 38
DefaultPyNum == 38
\* for attempt in range(3)
VersionAttempts == 3
\* the numbers the bootstrap container prints
PrintedNumbers == {19, 20, 27, 30, 37, 38}

Float(tenths) == [type |-> "float", tenths |-> tenths, parses |-> TRUE]
\* container_obj.logs(): bytes that float() parses, bytes that float() raises
\* ValueError on, or a value that is not bytes
ContainerLogs ==
    {[type |-> "bytes", tenths |-> n, parses |-> TRUE] : n \in PrintedNumbers}
    \cup {[type |-> "bytes", tenths |-> 0, parses |-> FALSE],
          [type |-> "str", tenths |-> 0, parses |-> FALSE]}
\* what happens during one attempt: containers.run, wait or logs raises, or
\* logs returns a value
AttemptOutcomes ==
    [kind : {"run_raises", "wait_raises", "logs_raises"}, logs : {Float(DefaultPyNum)}]
    \cup [kind : {"logs"}, logs : ContainerLogs]

\* py_num at the end of an attempt: py_num = container_obj.logs() is
\* assigned before the isinstance test and before float(py_num)
PyNumAfterAttempt(before, o) ==
    IF o.kind # "logs" THEN before
    ELSE IF o.logs.type = "bytes" /\ o.logs.parses THEN Float(o.logs.tenths)
    ELSE o.logs
\* whether the attempt reaches return py_num inside the loop
AttemptSucceeds(o) == o.kind = "logs" /\ o.logs.type = "bytes" /\ o.logs.parses

\* lint_global_facts.requirements_python2 / requirements_python3 of the call
RequirementsPython2 == <<"mock">>
RequirementsPython3 == <<"pytest">>
NoRequirements == [raised |-> FALSE, requirements |-> <<>>, warned |-> FALSE]

\* _get_requirements on the value get_python_version_from_image returned:
\* the comparison of a value that is not a number with 2 raises TypeError
RequirementsOfPyNum(number) ==
    IF number.type # "float"
    THEN [raised |-> TRUE, requirements |-> <<>>, warned |-> FALSE]
    ELSE [raised |-> FALSE,
          requirements |-> requirements_of_python_number(number.tenths, RequirementsPython2,
                                                         RequirementsPython3),
          warned |-> ~(20 < number.tenths /\ number.tenths < 30) /\ ~(number.tenths > 30)]

\* _get_requirements calls get_python_version_from_image(docker_image): a
\* powershell image returns 3.8 at once, another image enters the loop
GetPythonVersionCall ==
    /\ vpc \in {"idle", "got_requirements"}
    /\ \E image \in VersionImages :
          /\ version_image' = image
          /\ vpc' = IF IsPowershellImage(image) THEN "returned" ELSE "attempt"
    /\ py_num' = Float(DefaultPyNum)
    /\ attempt' = 0
    /\ containers_started' = 0
    /\ vrequirements' = NoRequirements
    /\ UNCHANGED <<linterVars, dockerVars, initVars, managerVars, factsVars, coverageVars,
                   exportVars, xsoarVars, poolVars, imageVars, pylintVars>>

\* one iteration of the loop: the try block and its except Exception: continue
GetPythonVersionAttempt ==
    /\ vpc = "attempt"
    /\ \E o \in AttemptOutcomes :
          /\ py_num' = PyNumAfterAttempt(py_num, o)
          /\ containers_started' = containers_started + (IF o.kind = "run_raises" THEN 0
                                                         ELSE 1)
          /\ attempt' = IF AttemptSucceeds(o) THEN attempt ELSE attempt + 1
          /\ vpc' = IF AttemptSucceeds(o) \/ attempt + 1 = VersionAttempts THEN "returned"
                    ELSE "attempt"
    /\ UNCHANGED <<version_image, vrequirements, linterVars, dockerVars, initVars,
                   managerVars, factsVars, coverageVars, exportVars, xsoarVars, poolVars,
                   imageVars, pylintVars>>

\* _get_requirements from the return of get_python_version_from_image on
GetRequirements ==
    /\ vpc = "returned"
    /\ vrequirements' = RequirementsOfPyNum(py_num)
    /\ vpc' = "got_requirements"
    /\ UNCHANGED <<version_image, attempt, py_num, containers_started, linterVars,
                   dockerVars, initVars, managerVars, factsVars, coverageVars, exportVars,
                   xsoarVars, poolVars, imageVars, pylintVars>>

VersionNext ==
    \/ GetPythonVersionCall
    \/ GetPythonVersionAttempt
    \/ GetRequirements

Init ==
    /\ FAILED_PACKAGES = <<>>
    /\ WARNING_PACKAGES = <<>>
    /\ lastCall = NoCall
    /\ FAILED_IMAGE_CREATIONS = <<>>
    /\ dpc = "idle"
    /\ dself = NoSelf
    /\ imgIdx = 0
    /\ trial = 0
    /\ image_id = "" /\ errors = None /\ linter_result = SUCCESS /\ output = <<>>
    /\ attempts = <<>>
    /\ raisedBy = None
    /\ ipc = "new"
    /\ args = NoArgs
    /\ content_repo = None
    /\ repo_diff = NoDiff
    /\ lint_module = "lint"
    /\ warnings = <<>>
    /\ mpc = "init"
    /\ packages = <<>>
    /\ parallel = 1
    /\ nextSubmit = 0
    /\ futures = <<>>
    /\ future = <<>>
    /\ work_queue = <<>>
    /\ taskpos = <<>>
    /\ interrupt = NoInterrupt
    /\ dispatch_failed = FALSE
    /\ analyzed = FALSE
    /\ status = None
    /\ ppc = "idle"
    /\ prun = 0
    /\ pool = NoPool
    /\ ptask = <<>>
    /\ containers = {}
    /\ produced = <<>>
    /\ image_pc = "idle"
    /\ pylint_call = NoPylintCall
    /\ vpc = "idle"
    /\ version_image = "none"
    /\ attempt = 0
    /\ py_num = Float(DefaultPyNum)
    /\ containers_started = 0
    /\ vrequirements = NoRequirements
    /\ icall = NoImageCall
    /\ iprev = NoImageCall
    /\ container_image = None
    /\ fpc = "start"
    /\ genv = NoEnv
    /\ global_facts = NoGlobalFacts
    /\ fpackage = NoPackage
    /\ package_facts = NoPackageFacts
    /\ lint_flags = {}
    /\ decisions = <<>>
    /\ cov_pc = "none"
    /\ coverage_file = NoCoverageFile
    /\ cov_call = ""
    /\ json_pc = "running"
    /\ json_file_path = ""
    /\ json_file = NoJsonFile
    /\ json_call = NoJsonFile
    /\ xpc = "idle"
    /\ xcommand = NoCommand
    /\ package_dir = {}
    /\ xfile = 0
    /\ xraised = None
    /\ xresult = SUCCESS
    /\ xexit_code = 0

\* top of the loop body for one test_image
EnterImage(idx, images) ==
    /\ imgIdx' = idx
    /\ trial' = 0
    /\ attempts' = <<>>
    /\ image_id' = "" /\ errors' = None /\ linter_result' = SUCCESS /\ output' = <<>>
    /\ dpc' = IF idx > Len(images) THEN "done" ELSE "image_create"

\* run(package, lint_package_facts) is called
DockerRunStart ==
    /\ dpc = "idle"
    /\ \E linter \in {"Powershell Test"}, package_name \in PackageNames, images \in ImageLists :
          /\ dself' = [module |-> "lint", linter |-> linter, package_name |-> package_name,
                       images |-> images]
          /\ EnterImage(1, images)
    /\ UNCHANGED <<FAILED_IMAGE_CREATIONS, raisedBy, linterVars, initVars, managerVars, auxVars>>

\* run() of a docker-backed linter of lint_refactor is called
RefactorRunStart ==
    /\ dpc = "idle"
    /\ \E package_name \in PackageNames, images \in ImageLists :
          /\ dself' = [module |-> "lint_refactor", linter |-> "Powershell Test",
                       package_name |-> package_name, images |-> images]
          /\ EnterImage(1, images)
    /\ UNCHANGED <<FAILED_IMAGE_CREATIONS, raisedBy, linterVars, initVars, managerVars, auxVars>>

\* whether the image creation loop is left after a trial: lint breaks when
\* there are no errors, lint_refactor continues when there are errors and has
\* no break
LeavesCreationLoop(module, errors_of_trial, trial_number) ==
    IF module = "lint_refactor" THEN trial_number = 1
    ELSE ~Truthy(errors_of_trial) \/ trial_number = 1

\* PytestLinter.run(package, lint_package_facts) is called
PytestRunStart ==
    /\ dpc = "idle"
    /\ \E package_name \in PackageNames, images \in ImageLists :
          /\ dself' = [module |-> "lint", linter |-> "Pytest", package_name |-> package_name,
                       images |-> images]
          /\ EnterImage(1, images)
    /\ UNCHANGED <<FAILED_IMAGE_CREATIONS, raisedBy, linterVars, initVars, managerVars, auxVars>>

\* the requirements the global facts hold for the image, and the script_type
\* of the package, during a run
RunRequirements == <<"pytest">>
RunScriptType == IF dself.linter = "Pytest" THEN TYPE_PYTHON ELSE TYPE_PWSH

\* one trial of the image creation loop
ImageCreateAttempt ==
    /\ dpc = "image_create"
    /\ \E o \in ImageCreateOutcomes :
          LET r == docker_image_create(dself.images[imgIdx], RunRequirements, RunScriptType, o)
              leave == LeavesCreationLoop(dself.module, r[2], trial)
          IN  /\ image_id' = r[1]
              /\ errors' = r[2]
              /\ trial' = IF leave THEN 0 ELSE trial + 1
              /\ dpc' = IF ~leave THEN "image_create"
                        ELSE IF r[1] # "" /\ ~Truthy(r[2]) THEN "run_on_image"
                        ELSE "creation_failed"
    /\ UNCHANGED <<FAILED_IMAGE_CREATIONS, dself, imgIdx, linter_result, output, attempts,
                   raisedBy, linterVars, initVars, managerVars, auxVars>>

\* the file table of the .coverage file copied out of the container
ContainerCoverageTable == (UpdateRowId :> "/devwork/a.py")

\* os.path.join(package_path, f'{package_path.stem}.py')
PackageCodeFile(package_name) ==
    IF package_name = "PkgA" THEN "/content/PkgA/a.py" ELSE "/content/PkgB/b.py"

\* one trial of the container run loop
RunOnImageAttempt ==
    /\ dpc = "run_on_image"
    /\ \E o \in RunOutcomes :
          LET r == run_on_image(dself.linter, o)
              leave == r[1] \in {FAIL, SUCCESS} \/ trial = 1
          IN  /\ linter_result' = IF r[1] \in {FAIL, SUCCESS} THEN r[1]
                                  ELSE CoerceRerun(r[1], trial)
              /\ output' = r[2]
              /\ attempts' = Append(attempts, o)
              /\ trial' = IF leave THEN 0 ELSE trial + 1
              /\ dpc' = IF leave THEN "add_report" ELSE "run_on_image"
              /\ coverage_file' =
                    IF handles_coverage(dself.linter, o)
                    THEN coverage_report_editor(ContainerCoverageTable,
                                                PackageCodeFile(dself.package_name))
                    ELSE coverage_file
    /\ UNCHANGED <<FAILED_IMAGE_CREATIONS, dself, imgIdx, image_id, errors, raisedBy,
                   linterVars, initVars, managerVars, factsVars, cov_pc, cov_call, exportVars,
                   xsoarVars, poolVars, imageVars, pylintVars, versionVars>>

\* the else branch: FAILED_IMAGE_CREATIONS[package.name] is read, appended to and stored
RecordImageCreationFailure ==
    /\ dpc = "creation_failed"
    /\ IF dself.package_name \in DOMAIN FAILED_IMAGE_CREATIONS
       THEN /\ FAILED_IMAGE_CREATIONS' =
                   [FAILED_IMAGE_CREATIONS EXCEPT ![dself.package_name] =
                       Append(@, FailedImageCreation(dself.images[imgIdx], errors))]
            /\ dpc' = "add_report"
            /\ UNCHANGED raisedBy
       ELSE /\ raisedBy' = "KeyError"
            /\ dpc' = "raised"
            /\ UNCHANGED FAILED_IMAGE_CREATIONS
    /\ UNCHANGED <<dself, imgIdx, trial, dockerLocals, attempts, linterVars, initVars, managerVars, auxVars>>

\* self.add_non_successful_package(package.name, linter_result, output), then the next image
DockerAddReport ==
    /\ dpc = "add_report"
    /\ LET a == add_non_successful_package(FAILED_PACKAGES, WARNING_PACKAGES,
                                           dself.package_name, linter_result, output)
       IN  /\ FAILED_PACKAGES' = a.failed
           /\ WARNING_PACKAGES' = a.warned
           /\ IF a.raised
              THEN /\ raisedBy' = "IndexError"
                   /\ dpc' = "raised"
                   /\ UNCHANGED <<imgIdx, trial, dockerLocals, attempts>>
              ELSE /\ EnterImage(imgIdx + 1, dself.images)
                   /\ UNCHANGED raisedBy
    /\ UNCHANGED <<FAILED_IMAGE_CREATIONS, dself, lastCall, initVars, managerVars, auxVars>>

DockerNext ==
    \/ DockerRunStart
    \/ ImageCreateAttempt
    \/ RunOnImageAttempt
    \/ RecordImageCreationFailure
    \/ DockerAddReport

RefactorDockerNext ==
    \/ RefactorRunStart
    \/ ImageCreateAttempt
    \/ RunOnImageAttempt
    \/ RecordImageCreationFailure
    \/ DockerAddReport

PytestNext ==
    \/ PytestRunStart
    \/ ImageCreateAttempt
    \/ RunOnImageAttempt
    \/ RecordImageCreationFailure
    \/ DockerAddReport

vars == <<linterVars, dockerVars, initVars, managerVars, auxVars>>

LinterNext == BaseLinterRun /\ UNCHANGED <<dockerVars, initVars, managerVars, auxVars>>

SpecLinter == Init /\ [][LinterNext]_vars

SpecDocker == Init /\ [][DockerNext]_vars

SpecPytest == Init /\ [][PytestNext]_vars

SpecRefactorDocker == Init /\ [][RefactorDockerNext]_vars

SpecPool == Init /\ [][PoolNext]_vars

SpecImage == Init /\ [][ImageNext]_vars

SpecManager == Init /\ [][ManagerNext]_vars

SpecFacts == Init /\ [][FactsNext]_vars

SpecCoverage == Init /\ [][CoverageNext]_vars

SpecExport == Init /\ [][ExportNext]_vars

SpecXsoar == Init /\ [][XsoarNext]_vars

SpecPylint == Init /\ [][PylintNext]_vars

SpecVersion == Init /\ [][VersionNext]_vars

(***************************************************************************)
(* Properties                                                              *)
(***************************************************************************)
LastReportNames(reports, before, package_name) ==
    /\ Len(reports) = Len(before) + 1
    /\ SubSeq(reports, 1, Len(before)) = before
    /\ reports[Len(reports)].package_name = package_name

\* C1: every linter invocation that ends FAIL or WARNING for a package adds
\* exactly one report carrying the package's name to the variant's respective
\* list (FAILED_PACKAGES for FAIL, WARNING_PACKAGES for WARNING), whatever the
\* output text is, and an invocation that ends SUCCESS adds no report.
C1_ExactlyOneReport ==
    lastCall # NoCall =>
        LET f == FailedPackagesOf(lastCall.linter)
            w == WarningPackagesOf(lastCall.linter)
        IN  /\ lastCall.linter_result = FAIL =>
                  /\ LastReportNames(f, lastCall.failed_before, lastCall.package_name)
                  /\ w = lastCall.warned_before
            /\ lastCall.linter_result = WARNING =>
                  /\ LastReportNames(w, lastCall.warned_before, lastCall.package_name)
                  /\ f = lastCall.failed_before
            /\ lastCall.linter_result = SUCCESS =>
                  /\ f = lastCall.failed_before
                  /\ w = lastCall.warned_before

\* C2: the report lists are kept per linter variant: a variant that did not
\* fail or warn on any package has empty FAILED_PACKAGES and WARNING_PACKAGES
\* and report_pass_lint_check reports it as PASS.
C2_PerVariantLists ==
    \A linter \in AllLinters :
        linter # lastCall.linter =>
            /\ FailedPackagesOf(linter) = <<>>
            /\ WarningPackagesOf(linter) = <<>>
            /\ report_pass_lint_check(linter, FALSE) = "PASS"

BothAttemptsRerun ==
    /\ Len(attempts) = 2
    /\ attempts[1].kind = "exception"
    /\ attempts[2].kind = "exception"

\* C3: when run_on_image returned RERUN on both attempts for an image, the
\* result handed to add_non_successful_package is FAIL with the output of the
\* second attempt, and the result handed over is never RERUN.
C3_RerunCoercedToFail ==
    dpc = "add_report" =>
        /\ linter_result # RERUN
        /\ BothAttemptsRerun => (linter_result = FAIL /\ output = attempts[2].text)

C3_Witness ==
    /\ dpc = "add_report"
    /\ BothAttemptsRerun
    /\ attempts[1].text # attempts[2].text
    /\ linter_result = FAIL
    /\ output = attempts[2].text

ContainerExitedWithFail ==
    /\ dpc = "add_report"
    /\ attempts # <<>>
    /\ attempts[Len(attempts)].kind = "exited"
    /\ process_docker_results(dself.linter, attempts[Len(attempts)].code) = FAIL

\* C4: when the container exits with a code the variant's mapping classifies
\* as FAIL, run_on_image returns FAIL with the container's full logs, and run
\* records a failure report for the package in the variant's failed list.
C4_FailExitCodeRecorded ==
    [][ContainerExitedWithFail =>
            /\ linter_result = FAIL
            /\ output = attempts[Len(attempts)].text
            /\ LastReportNames(FailedPackagesOf(dself.linter)', FailedPackagesOf(dself.linter),
                               dself.package_name)]_vars

\* C5: when image creation reported errors on every attempt, run records one
\* FailedImageCreation(image, errors) under the package's name (also when the
\* package has no entry yet), has started no container for the image and goes
\* on without raising.
C5_ImageCreationFailureRecorded ==
    [][dpc = "creation_failed" =>
            LET name == dself.package_name
                before == IF name \in DOMAIN FAILED_IMAGE_CREATIONS
                          THEN FAILED_IMAGE_CREATIONS[name] ELSE <<>>
            IN  /\ attempts = <<>>
                /\ dpc' = "add_report"
                /\ raisedBy' = None
                /\ name \in DOMAIN FAILED_IMAGE_CREATIONS'
                /\ FAILED_IMAGE_CREATIONS'[name] =
                       Append(before, FailedImageCreation(dself.images[imgIdx], errors))]_vars

\* C6: the worker pool has the size of the configured parallelism: while
\* package tasks are pending and fewer than `parallel` tasks are executing,
\* a worker can take the next package task (each task being at one position
\* in its own linters at a time).
C6_PoolSizeIsParallelism ==
    (work_queue # <<>> /\ Cardinality(Running) < parallel) => ENABLED StartTask

\* C7: once a KeyboardInterrupt has arrived during dispatch, nothing more is
\* submitted, only the tasks that had started when it arrived have ever
\* executed, and the return of run_dev_packages does not wait for tasks.
C7_InterruptStopsPool ==
    interrupt.arrived =>
        /\ Len(futures) = interrupt.submitted
        /\ Started \subseteq interrupt.started
        /\ (mpc = "with_exit" => ENABLED WithExit)

\* the three outcomes of a run that returned
RunOutcome ==
    IF interrupt.arrived THEN "interrupted"
    ELSE IF FAILED_PACKAGES # <<>> THEN "failed"
    ELSE "passed"

\* C8: the returned status tells the outcomes apart: an all-pass run and an
\* interrupted run return their two different values, a run with a recorded
\* FAIL returns neither of them, and a run stopped by an unexpected exception
\* in dispatch does not return the interrupted value.
C8_StatusDistinguishesOutcomes ==
    mpc = "returned" =>
        /\ RunOutcome = "passed" => status = ReturnNormal
        /\ RunOutcome = "interrupted" =>
              status = ReturnInterrupted /\ status # ReturnNormal
        /\ RunOutcome = "failed" => status \notin {ReturnNormal, ReturnInterrupted}
        /\ (dispatch_failed /\ ~interrupt.arrived) => status # ReturnInterrupted

\* C9: when a package task has failed with an exception, run_dev_packages
\* does not raise it: every submitted task still runs before the results
\* are collected, and an uninterrupted run returns only after analyze_results.
C9_TaskFailureNotRaised ==
    (\E i \in Tasks : future[i] = "exception") =>
        /\ mpc # "raised"
        /\ mpc \in {"collect", "analyze", "returned"} =>
              \A j \in Tasks : future[j] \in {"finished", "exception"}
        /\ (mpc = "returned" /\ ~interrupt.arrived) => analyzed

\* C10: with no content repository, __init__ raises at the repository check,
\* with no package resolved and run_dev_packages never entered, exactly when
\* all-packages mode or change-filtering was passed or no input path was
\* given; with input paths and neither mode it goes on and constructs the
\* manager.
C10_MissingRepoFailsFast ==
    /\ [][(ipc = "check_repo" /\ ipc' # ipc /\ content_repo = None) =>
             IF args.all_packs \/ args.git_only_passed \/ args.input_dirs = <<>>
             THEN ipc' = "raised" /\ packages' = <<>>
             ELSE ipc' = "get_packages"]_vars
    /\ [][(ipc = "get_packages" /\ ipc' # ipc /\ content_repo = None) =>
             ipc' = "constructed"]_vars
    /\ [](ipc \in {"raised", "raised_in_get_packages"} =>
             mpc = "init" /\ packages = <<>> /\ futures = <<>>)

\* the manager was not constructed for want of a repository although neither
\* mode was passed: no input path implied change-filtering
C10_Witness ==
    /\ ipc = "raised"
    /\ content_repo = None
    /\ args.input_dirs = <<>>
    /\ ~args.all_packs
    /\ ~args.git_only_passed

\* C11: for a package whose lint-file set is empty, no file-based linter is
\* to run: should_run is false for MyPy, Vulture, Bandit, the XSOAR linter,
\* Pylint and Powershell Analyze, and for Flake8 when the package has no
\* unit-test file either.
C11_NoRunOnEmptyLintFiles ==
    (fpc = "decided" /\ package_facts.lint_files = {}) =>
        /\ \A l \in FileBasedLinters \ {"Flake8"} : ~decisions[l]
        /\ ~has_unit_tests(fpackage) => ~decisions["Flake8"]

\* the names of the shared support files
SupportFileNames == MandatoryModuleNames \cup {CommonServerUserPython.name}

\* C12: the lint-file set of a package never holds the package's unit-test
\* file, a file named like a shared support file, __init__.py or a *.tmp file.
C12_LintFilesExclusions ==
    fpc \in {"package_facts", "decided"} =>
        \A f \in package_facts.lint_files :
            /\ f # unittest_path(fpackage)
            /\ f \notin SupportFileNames
            /\ f # File("__init__", "", "py")
            /\ f.ext # "tmp"

\* C13: global facts that were built hold content for every support file:
\* a remote fetch that is refused on all its attempts must have aborted the
\* run instead.
C13_NoFactsWithoutModuleContent ==
    fpc \in {"global_facts", "linters", "raised_in_linters", "package_facts", "decided"} =>
        \A m \in DOMAIN global_facts.test_modules : global_facts.test_modules[m] # None

\* the linters that run as local processes
LocalProcessLinters == FactsLinters \ ContainerLinters

\* C14: with global facts built without a container engine, nothing raises
\* because of it: the linters are constructed, every container linter is
\* skipped, and a local-process linter is skipped only for its own reasons.
C14_MissingEngineIsNotFatal ==
    (fpc \in {"linters", "raised_in_linters", "package_facts", "decided"}
        /\ ~global_facts.has_docker_engine) =>
        /\ fpc # "raised_in_linters"
        /\ fpc = "decided" =>
              /\ \A l \in ContainerLinters : ~decisions[l]
              /\ \A l \in LocalProcessLinters :
                    decisions[l] = should_run(l, [global_facts EXCEPT !.has_docker_engine = TRUE],
                                              fpackage, lint_flags)

\* the packages discovered from the arguments of the constructor
DiscoveredPackages ==
    IF args.input_dirs = <<>> THEN get_all_packages(<<>>)
    ELSE IF lint_module = "lint_refactor" THEN get_packages_of_input_dirs(args.input_dirs).packages
    ELSE FlattenPackages(args.input_dirs)

\* a changed file of either diff lies in the package's directory or below it
TouchedByChange(package) ==
    \E f \in repo_diff.staged \cup repo_diff.changed_from_base :
        IsUnder(f, PackagePath(package))

\* C15: with change-filtering on, the package list the constructor resolves
\* is exactly the discovered packages touched by a file of the working-tree
\* diff or of the diff against the merge-base; untouched packages are dropped.
C15_ChangeFilterKeepsTouched ==
    [][(ipc = "get_packages" /\ ipc' = "constructed" /\ args.git_only) =>
          packages' = SelectSeq(DiscoveredPackages, TouchedByChange)]_vars

\* the parent directory of an input path is Integrations or Scripts
IsPackageDir(path) == ParentDirName(path) \in {INTEGRATIONS_DIR, SCRIPTS_DIR}

\* one package for each input path that is a package directory, in input order
OnePackagePerPackageDir(input_dirs) ==
    LET valid == SelectSeq(input_dirs, IsPackageDir)
    IN  [i \in 1..Len(valid) |-> PackageAt(valid[i])]

\* C16: with explicit input paths, a path whose parent directory is
\* Integrations or Scripts resolves to exactly one package and is not warned
\* about; a path that is neither is warned about and contributes no package;
\* nothing is raised.
C16_InputPathsResolveOrWarn ==
    [][(ipc = "get_packages" /\ args.input_dirs # <<>> /\ ~args.git_only) =>
          /\ ipc' = "constructed"
          /\ packages' = OnePackagePerPackageDir(args.input_dirs)
          /\ warnings' = SelectSeq(args.input_dirs, LAMBDA path : ~IsPackageDir(path))]_vars

\* how often a package occurs in a sequence of packages
Occurrences(seq, package) == Cardinality({i \in 1..Len(seq) : seq[i] = package})

\* C17: the package tasks are submitted in ascending order of package path,
\* whatever the order of the resolved package list, and once the loop has
\* ended the submitted sequence holds each resolved package as often as the
\* list does, so that it is a function of the package set alone.
C17_SubmittedInPathOrder ==
    mpc # "init" =>
        /\ \A i, j \in 1..Len(futures) :
              i < j => PathRank(futures[i]) <= PathRank(futures[j])
        /\ (nextSubmit > Len(packages) /\ ~dispatch_failed /\ ~interrupt.arrived) =>
              \A package \in PackageNames :
                  Occurrences(futures, package) = Occurrences(packages, package)

\* the packages were resolved in descending path order and both are submitted
C17_Witness ==
    /\ mpc # "init"
    /\ packages = <<"PkgB", "PkgA">>
    /\ futures = <<"PkgA", "PkgB">>

\* C18: when the file table has exactly one entry, coverage_report_editor
\* leaves the coverage file in place with that entry's path rewritten to the
\* supplied absolute path, whatever its row id and original path; with zero
\* or several entries no path changes and the coverage file is deleted.
C18_SingleEntryRewritten ==
    [][(cov_pc = "written" /\ cov_pc' = "edited") =>
          IF Cardinality(DOMAIN coverage_file.file_table) = 1
          THEN /\ coverage_file'.exists
               /\ DOMAIN coverage_file'.file_table = DOMAIN coverage_file.file_table
               /\ \A id \in DOMAIN coverage_file.file_table :
                     coverage_file'.file_table[id] = cov_call'
          ELSE /\ ~coverage_file'.exists
               /\ coverage_file'.file_table = coverage_file.file_table]_vars

\* the records of the linters that have a formatter, linter by linter, the
\* failures of a linter before its warnings
NewJsonRecords ==
    LET formatted == SelectSeq(ExportLinters, LAMBDA l : JsonFormatterOf(l) # None)
        of(l) == FormatReports(JsonFormatterOf(l), "error", FAILED_PACKAGES)
                    \o FormatReports(JsonFormatterOf(l), "warning", WARNING_PACKAGES)
    IN  of(formatted[1]) \o of(formatted[2]) \o of(formatted[3])

C20_PluginFilesRemoved ==
    /\ xpc = "with_block" => PluginFiles \subseteq package_dir
    /\ xpc = "left" => package_dir \cap PluginFiles = {}

\* run was left by an exception raised in the with block, when every plugin
\* file had been linked into the package directory
C20_Witness ==
    /\ xpc = "left"
    /\ xraised = "with_block"
    /\ xresult = SUCCESS
    /\ package_dir = {"Pkg.py"}

\* C21: when a container run of the pytest linter exits with code 0, the
\* result of the package for the image is SUCCESS, so that no failure report
\* is recorded and the summary counts the package as passed, and (coverage
\* is not disabled) the package's coverage file is written with its path
\* rewritten to the package's code file.
C21_PytestExitZeroIsSuccess ==
    (/\ dpc = "add_report"
     /\ dself.linter = "Pytest"
     /\ attempts # <<>>
     /\ \A i \in 1..Len(attempts) : attempts[i].kind = "exited" /\ attempts[i].code = 0) =>
        /\ linter_result = SUCCESS
        /\ coverage_file.exists
        /\ coverage_file.file_table[UpdateRowId] = PackageCodeFile(dself.package_name)

\* the reports the accumulators hold for a package: its reports in
\* FAILED_PACKAGES and its entries in FAILED_IMAGE_CREATIONS
ReportsFor(package_name) ==
    Cardinality({k \in 1..Len(FAILED_PACKAGES) : FAILED_PACKAGES[k].package_name = package_name})
    + (IF package_name \in DOMAIN FAILED_IMAGE_CREATIONS
       THEN Len(FAILED_IMAGE_CREATIONS[package_name]) ELSE 0)

\* C22: when every package task of a process's first lint run made one failing
\* invocation of the docker-backed variant (its image creation ended with
\* errors, or its container runs ended FAIL), then after all tasks have ended
\* the accumulators hold exactly one report per task, under the task's
\* package: no report is lost and none is duplicated.
C22_NoReportLostOrDuplicated ==
    (/\ ppc = "finished" /\ prun = 1
     /\ \A i \in PoolTasks : ptask[i].failed_by # "none") =>
        \A i \in PoolTasks :
            ReportsFor(pool.packages[i]) =
                Cardinality({j \in PoolTasks : pool.packages[j] = pool.packages[i]})

\* C23: when a lint run has ended, the failure list its reports, summary and
\* JSON export read holds only the reports produced during that run, also
\* when it is the second run of the process.
C23_ListsScopedToRun ==
    ppc = "finished" => FAILED_PACKAGES = produced

ReturnedFromRunOnImage ==
    {i \in PoolTasks : /\ ptask[i].pc \in {"add_report", "done", "raised"}
                       /\ ptask[i].failed_by # "image_creation"}

\* C31: when keep_container is false, no container that run_on_image started
\* for a task remains once the task's last run_on_image call has returned,
\* whatever it returned (SUCCESS, FAIL, or RERUN after an exception raised
\* once the container was started).
C31_NoContainerRemains ==
    ~pool.keep_container =>
        \A i \in ReturnedFromRunOnImage :
            [name |-> NameOfTask(i), task |-> i] \notin containers

\* C32: after build_docker returns, the '.Dockerfile' descriptor it wrote no
\* longer exists in the directory, whether the second-stage build succeeded
\* at once, failed on some tries, or failed on all tries.
C32_DockerfileDeleted ==
    (icall # NoImageCall /\ icall.build_docker_called) =>
        DockerfileName \notin icall.package_files

C32_Witness ==
    /\ icall # NoImageCall /\ icall.build_docker_called
    /\ icall.builds_failed
    /\ icall.package_files = InitialPackageFiles

\* C33: the containerized Pylint variant decodes the container exit code as
\* OR'd flag bits: every exit code with the fatal bit (1) or the error bit
\* (2) set is classified FAIL, whatever other bits are set with it, and an
\* exit code with the usage-error bit (32) set is never classified SUCCESS.
C33_PylintFlagBits ==
    pylint_call # NoPylintCall =>
        LET code == pylint_call.container_exit_code
        IN  /\ (BitSet(code, 1) \/ BitSet(code, 2)) => pylint_call.linter_result = FAIL
            /\ BitSet(code, 32) => pylint_call.linter_result # SUCCESS

\* C36: _get_requirements gives the python-2 requirements to every version
\* in the python-2 range, the python-3 requirements to every version 3.0 or
\* higher, exactly 3.0 included, and the empty list with a warning only to
\* versions outside both ranges.
C36_RequirementsByVersion ==
    (vpc = "got_requirements" /\ py_num.type = "float") =>
        LET number == py_num.tenths
            python2 == 20 < number /\ number < 30
            python3 == number >= 30
        IN  /\ python2 => (vrequirements.requirements = RequirementsPython2
                            /\ ~vrequirements.warned)
            /\ python3 => (vrequirements.requirements = RequirementsPython3
                            /\ ~vrequirements.warned)
            /\ (~python2 /\ ~python3) => (vrequirements.requirements = <<>>
                                           /\ vrequirements.warned)

\* C37: get_python_version_from_image starts the bootstrap container at most
\* three times; a powershell image gets 3.8 without a container; the first
\* attempt that succeeds returns the parsed number; and when all three
\* attempts failed, at whatever step, the value returned is the default 3.8.
C37_VersionAttempts ==
    /\ containers_started <= VersionAttempts
    /\ vpc \in {"returned", "got_requirements"} =>
          /\ IsPowershellImage(version_image) =>
                (containers_started = 0 /\ py_num = Float(DefaultPyNum))
          /\ (~IsPowershellImage(version_image) /\ attempt < VersionAttempts) =>
                (py_num.type = "float" /\ py_num.tenths \in PrintedNumbers)
          /\ attempt = VersionAttempts => py_num = Float(DefaultPyNum)

\* the exit code has a bit of the WARNING value / of a failure value
SignalsWarning(exit_code) == BitAnd(exit_code, XsoarExitWARNING) # 0
SignalsFailure(exit_code) ==
    \/ BitAnd(exit_code, XsoarExitFAIL) # 0
    \/ BitAnd(exit_code, XsoarExitPYLINT_FAILURE) # 0

\* C34: XSOARLinter.run classifies by the flags of XSOARLinterExitCode: exit
\* code 0 gives SUCCESS, an exit code that signals only warnings gives
\* WARNING, an exit code that signals a failure gives FAIL also when it
\* signals warnings, and WARNING is a result some exit code leads to.
C34_XsoarExitCodeFlags ==
    (xpc \in {"cleanup", "left"} /\ xraised = None) =>
        /\ xexit_code = 0 => xresult = SUCCESS
        /\ (SignalsWarning(xexit_code) /\ ~SignalsFailure(xexit_code)) => xresult = WARNING
        /\ SignalsFailure(xexit_code) => xresult = FAIL
        /\ \E exit_code \in XsoarExitCodes : xsoar_linter_result(exit_code) = WARNING

\* the lines of one list are lines of the output, in the order of the output
KeepsOrderOf(lines, list) ==
    SelectSeq(lines, LAMBDA m : \E i \in 1..Len(list) : list[i] = m) = list

\* C35: split_warnings_errors is total and partitions its input: for every
\* output string, the empty string and the one-character lines 'W' and 'E'
\* included, it returns three lists such that every line of the output is
\* in exactly one of them, in the relative order of the output.
C35_SplitIsTotalPartition ==
    (lastCall # NoCall /\ lastCall.linter_result = FAIL) =>
        LET lines == SplitLines(lastCall.output)
            split == split_warnings_errors(lastCall.output)
        IN  /\ ~split.raised
            /\ Len(split.errors) + Len(split.warnings) + Len(split.other) = Len(lines)
            /\ KeepsOrderOf(lines, split.errors)
            /\ KeepsOrderOf(lines, split.warnings)
            /\ KeepsOrderOf(lines, split.other)

C39_SummaryCountsPackagesOnce ==
    analyzed =>
        LET summary == report_summary(packages)
            failed == {FAILED_PACKAGES[k].package_name : k \in 1..Len(FAILED_PACKAGES)}
        IN  /\ summary.fail = Cardinality(failed)
            /\ summary.pass = summary.packages - summary.fail
            /\ summary.pass >= 0

\* the LintFlags field named after the variant
OwnFlagOf(linter) ==
    CASE linter = "Flake8" -> "disable_flake8"
      [] linter = "MyPy" -> "disable_mypy"
      [] linter = "Vulture" -> "disable_vulture"
      [] linter = "Pytest" -> "disable_pytest"
      [] linter = "Powershell Test" -> "disable_pwsh_test"
      [] linter = "Bandit" -> "disable_bandit"
      [] linter = "Pylint" -> "disable_pylint"
      [] linter = "XSOAR Linter" -> "disable_xsoar_linter"
      [] linter = "Powershell Analyze" -> "disable_pwsh_analyze"

\* C40: each linter variant is switched off by its own disable flag and by
\* no other: its should_run is false for every package when its own flag is
\* set, and the flag of another variant never changes its should_run.
C40_OwnDisableFlagOnly ==
    fpc = "decided" =>
        \A linter \in FactsLinters :
            /\ OwnFlagOf(linter) \in lint_flags => ~decisions[linter]
            /\ decisions[linter] = should_run(linter, global_facts, fpackage,
                                              lint_flags \cap {OwnFlagOf(linter)})

\* C25: a local-process linter run is classified FAIL exactly when the exit
\* code of the command is nonzero or its stderr is not empty, and SUCCESS
\* otherwise; on FAIL the output handed on to the report is stderr when
\* stderr is not empty and stdout otherwise.
C25_LocalRunClassification ==
    lastCall # NoCall =>
        /\ lastCall.linter_result \in {FAIL, SUCCESS}
        /\ lastCall.linter_result = FAIL <=>
               (lastCall.exit_code # 0 \/ lastCall.stderr # <<>>)
        /\ lastCall.linter_result = FAIL =>
               lastCall.output = IF lastCall.stderr # <<>> THEN lastCall.stderr
                                 ELSE lastCall.stdout

\* a run with exit code 0 that wrote to stderr and to stdout was classified
C25_Witness ==
    /\ lastCall # NoCall
    /\ lastCall.exit_code = 0 /\ lastCall.stderr # <<>> /\ lastCall.stdout # <<>>
    /\ lastCall.linter_result = FAIL /\ lastCall.output = lastCall.stderr

C28_ContainerRunsSecondStageImage ==
    image_pc = "ran" => container_image = icall.second_stage

\* C29: when the second-stage build fails on every build try, the call
\* returns a non-empty error text and run takes the image creation failure
\* branch: no container is run.
C29_FailedBuildIsCreationFailure ==
    (image_pc \in {"ran", "creation_failed"} /\ icall.builds_failed) =>
        /\ Truthy(icall.errors)
        /\ image_pc = "creation_failed"
        /\ container_image = None

\* the position of a support tier in the order of the tiers
TierRank(support_level) == CHOOSE i \in 1..Len(SupportLevels) : SupportLevels[i] = support_level

\* C27: the checkers the XSOAR linter loads form an additive hierarchy over
\* the tiers base, community, partner, certified partner, xsoar: the command
\* built for a package of a tier loads every checker, and enables every
\* message, of the command built for any lower tier, and at least one checker
\* more; a package whose metadata declares no tier gets the command of base.
C27_AdditiveSupportTiers ==
    xcommand # NoCommand =>
        /\ "support_level" \notin DOMAIN xcommand.pack_metadata =>
              /\ xcommand.checker_path =
                    build_linter_command([name |-> "pack", support_level |-> "base"]).checker_path
              /\ xcommand.message_enable =
                    build_linter_command([name |-> "pack", support_level |-> "base"]).message_enable
        /\ \A lower \in Range(SupportLevels) :
              (/\ "support_level" \in DOMAIN xcommand.pack_metadata
               /\ xcommand.pack_metadata.support_level \in Range(SupportLevels)
               /\ TierRank(lower) < TierRank(xcommand.pack_metadata.support_level)) =>
                  LET below == build_linter_command([name |-> "pack", support_level |-> lower])
                  IN  /\ Range(below.checker_path) \subseteq Range(xcommand.checker_path)
                      /\ Range(below.checker_path) # Range(xcommand.checker_path)
                      /\ Range(below.message_enable) \subseteq Range(xcommand.message_enable)

\* the command of a partner package was built and run
C27_Witness ==
    /\ xcommand # NoCommand
    /\ "support_level" \in DOMAIN xcommand.pack_metadata
    /\ xcommand.pack_metadata.support_level = "partner"
    /\ Len(xcommand.checker_path) = 3
    /\ xpc = "left"

\* C30: for each image, run makes at most two image creation attempts and at
\* most two container runs: a second image creation attempt is made only
\* after the first one reported errors, and a second container run only
\* after the first one returned RERUN.
C30_SecondAttemptOnlyAfterFailure ==
    /\ trial \in 0..1
    /\ Len(attempts) <= 2
    /\ (dpc = "image_create" /\ trial = 1) => Truthy(errors)
    /\ (dpc = "run_on_image" /\ trial = 1) =>
           /\ Len(attempts) = 1
           /\ run_on_image(dself.linter, attempts[1])[1] = RERUN

====
